---- MODULE Spec2Model ----
(***************************************************************************)
(* Entity synchronisation and dead reckoning of the worldview layers.      *)
(*                                                                         *)
(* One layer instance (FlightLayer or ShipLayer, chosen in Init) is        *)
(* modelled together with the viewer it draws into and the click handler   *)
(* that locks the camera onto an entity.  SatelliteLayer, a declarative    *)
(* React component, has its own specification (SatSpec) further down.      *)
(*                                                                         *)
(* Units: the clock `now` counts whole seconds (Date.now() / 1000);        *)
(* latitudes and longitudes are micro-degrees; altitudes are metres;       *)
(* speeds are knots.  Optional values (number | null) are sequences of     *)
(* length at most one.                                                     *)
(***************************************************************************)
EXTENDS Integers, Sequences, FiniteSets, TLC

VARIABLES
    scenario,         \* which family of runs is explored: "sync" (varied batches,
                      \* a short clock), "clock" (few batches, a long clock),
                      \* "coords" (a record out of range), "fault" (entity
                      \* creation can fail), "class" (the click handler
                      \* alone), "pure" (the pure functions alone), "numeric"
                      \* (a ten-second clock), "frames" (a one-second clock)
                      \* "app" (the application's own lock handlers too),
                      \* "poll" (the polling hooks), "tle" (useSatellites) or
                      \* "ws" (the backend's WebSocket flight push)
    layer,            \* "flight" | "ship" | "sat": which layer component this is
    mounted,          \* the component is mounted (collectionsRef.current # null)
    batch,            \* the flights / ships / satellites prop
    visible,          \* the visible prop
    filter,           \* the altitudeFilter / categoryFilter prop
    trackedInfo,      \* App's trackedEntity state (isTracking prop = trackedInfo # "null")
    trackedEntity,    \* viewer.trackedEntity
    isTrackingRef,    \* EntityClickHandler's isTrackingRef.current
    cctvTrackEntityRef, \* App's cctvTrackEntityRef.current: the temporary entity
                      \* of a CCTV lock-on, which is in viewer.entities exactly
                      \* while this ref holds it
    notified,         \* what the latest run of a click / key handler passed to
                      \* onTrackEntity ("none": it did not call it)
    now,              \* Date.now(), in seconds
    lastBulkUpdate,   \* lastBulkUpdate of the preUpdate closure
    stateRef,         \* flightStateRef / shipStateRef
    positionMapRef,   \* positionMapRef
    entityMapRef,     \* entityMapRef
    primitiveMapRef,  \* primitiveMapRef
    viewerEntities,   \* viewer.entities
    billboards,       \* collectionsRef.current.billboards (its members)
    labels,           \* collectionsRef.current.labels (its members)
    billboardsShow,   \* billboards.show
    labelsShow,       \* labels.show
    called,           \* the latest call of a pure function: its name and its
                      \* arguments (name "none" before the first call)
    returned,         \* what that call returned
    poll,             \* a polling hook (useFlights, useShips, useFlightsLive
                      \* or useCameras): its props, state, refs, effect and
                      \* the fetches and the timer it has pending
    satellites,       \* useSatellites: its refs, state and emitted positions
    wsServer,         \* the backend: its WebSocket clients, flightPollingInterval,
                      \* the armed intervals and the starts awaiting their poll
    lastOp            \* history: the effect that ran last ("sync", "tick",
                      \* "unmount", or "none") and, for a sync, the ids that held
                      \* a RenderHandle when it started and those among them
                      \* whose handle a tick had moved off its last-known position

vars == <<scenario, layer, mounted, batch, visible, filter, trackedInfo, trackedEntity,
          isTrackingRef, notified, now, lastBulkUpdate, stateRef, positionMapRef,
          entityMapRef, primitiveMapRef, viewerEntities, billboards, labels,
          billboardsShow, labelsShow, called, returned, lastOp,
          cctvTrackEntityRef, poll, satellites, wsServer>>

fnVars == <<called, returned>>
auxVars == <<fnVars, poll, satellites, wsServer>>

(***************************************************************************)
(* Bounds of the model.                                                    *)
(***************************************************************************)
MaxBatchLen == 2
MaxClockSteps == 2
MaxSyncClockSteps == 1

Ids == {"a", "b"}

(***************************************************************************)
(* Maps (JavaScript Map) as functions with a finite domain.                *)
(***************************************************************************)
EmptyMap == [k \in {} |-> k]
Put(m, k, v) == [x \in (DOMAIN m) \cup {k} |-> IF x = k THEN v ELSE m[x]]

(***************************************************************************)
(* Entities.  A Cesium Entity is an object: oid is its identity, kind and  *)
(* key spell its id string (`flight-<icao24>`, `ship-<mmsi>`, ...).        *)
(***************************************************************************)
NoEntity == [oid |-> 0, kind |-> "none", key |-> "none"]
QuakeEntity == [oid |-> 0, kind |-> "quake", key |-> "q1"]
\* the temporary entity handleCctvLockOn adds for a camera
CctvEntity == [oid |-> 0, kind |-> "cctv", key |-> "cctv"]

\* Object identity.  A new object made for id k is distinct from every object
\* that is still referenced, in the state the handler starts from or made by
\* it so far: objects made for different ids differ by their key, and its
\* serial is the least one no referenced object of key k carries.  (The serial
\* of an object that was destroyed in an earlier step may be taken again, so
\* identities are compared within one step only.)
Fresh(used, k) ==
    LET taken == {o.oid : o \in {u \in used : u.key = k}} IN
    CHOOSE n \in 1..(Cardinality(taken) + 1) :
        n \notin taken /\ \A m \in 1..(n - 1) : m \in taken

(***************************************************************************)
(* Layer parameters.                                                       *)
(***************************************************************************)
FLIGHT_HORIZON_SEC == 120
SHIP_HORIZON_SEC == 300
FLIGHT_BULK_MS == 1000
SHIP_BULK_MS == 2000

Horizon == IF layer = "ship" THEN SHIP_HORIZON_SEC ELSE FLIGHT_HORIZON_SEC
BULK_MS == IF layer = "ship" THEN SHIP_BULK_MS ELSE FLIGHT_BULK_MS

\* state.speed > 10 (knots) for aircraft, state.sog > 0.5 for vessels
Moving(speed) == IF layer = "ship" THEN 2 * speed > 1 ELSE speed > 10

(***************************************************************************)
(* Altitude bands.                                                         *)
(***************************************************************************)
AltitudeBands == {"cruise", "high", "mid", "low", "ground"}

\* A JavaScript value of type number | null: a number, NaN or null.
Num(n) == [t |-> "num", v |-> n]
NaN == [t |-> "nan", v |-> 0]
Null == [t |-> "null", v |-> 0]

\* x >= n and x <= n: false when x is NaN; null converts to 0
Ge(x, n) == x.t # "nan" /\ (IF x.t = "null" THEN 0 ELSE x.v) >= n
Le(x, n) == x.t # "nan" /\ (IF x.t = "null" THEN 0 ELSE x.v) <= n
\* x === n
StrictEq(x, n) == x.t = "num" /\ x.v = n

getAltitudeBand(altFeet) ==
    IF Ge(altFeet, 35000) THEN "cruise"
    ELSE IF Ge(altFeet, 20000) THEN "high"
    ELSE IF Ge(altFeet, 10000) THEN "mid"
    ELSE IF Ge(altFeet, 3000) THEN "low"
    ELSE "ground"

\* the bands the operator toggles in the model
ToggledBands == {"cruise"}

DEFAULT_ALTITUDE_FILTER ==
    [b \in AltitudeBands |-> b # "cruise"]

\* `if (!altitudeFilter[band]) continue;` -- ShipLayer has no such test
PassesFilter(f, flt) ==
    IF layer = "flight" THEN flt[getAltitudeBand(Num(f.altitudeFeet))] ELSE TRUE

(***************************************************************************)
(* Inputs: the records a feed can deliver.  All lie on the equator and fly *)
(* a cardinal heading, where the trigonometry of the dead reckoning is     *)
(* exact.                                                                  *)
(***************************************************************************)
Flight(i, lon, alt, altFeet) ==
    [id |-> i, latitude |-> 0, longitude |-> lon, altitude |-> alt,
     altitudeFeet |-> altFeet, heading |-> <<90>>, speed |-> <<200>>]

Ship(i, lon) ==
    [id |-> i, latitude |-> 0, longitude |-> lon, altitude |-> 0,
     altitudeFeet |-> 0, heading |-> <<90>>, speed |-> <<20>>]

\* a record the flights proxy lets through with a latitude of 95 degrees: it
\* rejects only the positions that are null or zero, and useFlights only the
\* aircraft on the ground (the ships proxy rejects the positions out of range)
OutOfRangeFlight(i) ==
    [Flight(i, 0, 610, 2000) EXCEPT !.latitude = 95000000, !.heading = <<>>]

\* "a" cruises at 36,000 ft, "b" is low; in the "sync" scenario "a" is reported
\* at two longitudes, in the "coords" scenario "b" also with a latitude out of
\* range
Flights ==
    { Flight("a", 0, 10973, 36000), Flight("b", 0, 610, 2000) }
    \cup (IF scenario = "sync" THEN { Flight("a", 10000, 10973, 36000) } ELSE {})
    \cup (IF scenario = "coords" THEN { OutOfRangeFlight("b") } ELSE {})

Ships ==
    { Ship("a", 0), Ship("b", 0) }
    \cup IF scenario = "sync" THEN { Ship("a", 10000) } ELSE {}

\* 194 kt and 195 kt: the whole numbers of knots on either side of 100 m/s
\* (99.80 m/s and 100.32 m/s)
AboutHundredMetresPerSecond == {194, 195}

Inputs ==
    IF scenario = "numeric"
    THEN { [(IF layer = "ship" THEN Ship("a", 0) ELSE Flight("a", 0, 610, 2000))
                EXCEPT !.speed = <<kt>>] : kt \in AboutHundredMetresPerSecond }
    ELSE IF layer = "ship" THEN Ships ELSE Flights

Batches == UNION { [1..n -> Inputs] : n \in 0..MaxBatchLen }

\* the unit of the instants at which handlers run (seconds)
\* (in the "numeric" scenario ten seconds; in the "frames" scenario the first
\* instant is two seconds, already a bulk interval past lastBulkUpdate = 0)
ClockStep ==
    IF layer = "sat" THEN 1
    ELSE IF scenario = "numeric" THEN 10
    ELSE IF scenario = "frames" THEN 2
    ELSE Horizon \div 2

(***************************************************************************)
(* Positions and dead reckoning.                                           *)
(***************************************************************************)
\* Cartesian3.fromDegrees is injective on the model's inputs: the triple stands
\* for the Cartesian3 it yields.
Cartesian3FromDegrees(lon, lat, alt) == [lon |-> lon, lat |-> lat, alt |-> alt]

\* Math.cos / Math.sin of a cardinal heading, in degrees
CosDeg(h) == IF h = 0 THEN 1 ELSE IF h = 180 THEN -1 ELSE 0
SinDeg(h) == IF h = 90 THEN 1 ELSE IF h = 270 THEN -1 ELSE 0

\* a dead reckoning that takes the knots for metres per second
DegreesTravelled_KnotsAsMetres(knots, dtSec) ==
    (knots * 1000 * dtSec * 25) \div 2783

\* degrees travelled (micro-degrees) at `knots` during dtSec along one axis:
\* knots * 0.514444 * dtSec / 111320, with 0.514444 m/s per knot taken in mm/s
DegreesTravelled(knots, dtSec) ==
    (((knots * 514444) \div 1000) * dtSec * 25) \div 2783

\* lat += cos(h) * speedMps * dtSec / 111320;
\* lon += sin(h) * speedMps * dtSec / (111320 * cosLat), cosLat = 1 on the equator
\* (for a northward or southward heading sin(h) = 0 and cosLat plays no part)
Extrapolate(st, dtSec) ==
    [lat |-> st.lat + CosDeg(st.heading[1]) * DegreesTravelled(st.speed[1], dtSec),
     lon |-> st.lon + SinDeg(st.heading[1]) * DegreesTravelled(st.speed[1], dtSec)]

LastKnown(st) == Cartesian3FromDegrees(st.lon, st.lat, st.alt)

\* the tracked tick: extrapolate when moving and 0 < dt < horizon, else last known
TrackedPosition(st, t) ==
    LET dtSec == t - st.updatedAt IN
    IF st.heading # <<>> /\ st.speed # <<>> /\ Moving(st.speed[1])
       /\ dtSec > 0 /\ dtSec < Horizon
    THEN LET p == Extrapolate(st, dtSec) IN Cartesian3FromDegrees(p.lon, p.lat, st.alt)
    ELSE LastKnown(st)

\* a bulk tick that skips no entity for its age
BulkSkips_NoHorizon(st, t) ==
    LET dtSec == t - st.updatedAt IN dtSec <= 0

\* the bulk tick: `if (dtSec <= 0 || dtSec > 120) continue;`
BulkSkips(st, t) ==
    LET dtSec == t - st.updatedAt IN dtSec <= 0 \/ dtSec > Horizon

BulkPosition(st, t) ==
    LET dtSec == t - st.updatedAt IN
    IF st.heading # <<>> /\ st.speed # <<>> /\ Moving(st.speed[1])
    THEN LET p == Extrapolate(st, dtSec) IN Cartesian3FromDegrees(p.lon, p.lat, st.alt)
    ELSE LastKnown(st)

\* EllipsoidalOccluder(WGS84, camera.positionWC).isPointVisible(pos): every
\* position of the model lies within a degree of (0, 0), so the test passes
\* exactly when the camera is on that side of the globe.  A handler that reads
\* the camera takes the side it finds it on as an input (cam).
isPointVisible(cam, pos) == cam = "near"

\* only ShipLayer reads the camera
CameraSides == IF layer = "ship" THEN {"near", "far"} ELSE {"near"}

(***************************************************************************)
(* Effect 2: sync the batch into the primitives.  The refs the effect      *)
(* mutates are threaded through as one record r:                           *)
(*   state, pos, ent, prim  the four maps                                  *)
(*   vents, bills, lbls     viewer.entities and the two collections        *)
(*   usedE, usedP           the entity / primitive serials referenced      *)
(*   active                 activeIcaos / activeMMSIs                      *)
(***************************************************************************)
Refs ==
    [state |-> stateRef, pos |-> positionMapRef, ent |-> entityMapRef,
     prim |-> primitiveMapRef, vents |-> viewerEntities, bills |-> billboards,
     lbls |-> labels, active |-> {},
     usedE |-> viewerEntities \cup {trackedEntity},
     usedP |-> billboards \cup labels]

\* a commit that stamps a state with the time left until two horizons
NewState_CountsDown(f, t) ==
    [lat |-> f.latitude, lon |-> f.longitude, alt |-> f.altitude,
     heading |-> f.heading, speed |-> f.speed, updatedAt |-> 2 * Horizon - t]

\* a commit that leaves the extrapolation state of a known id as it was
NewState_KeepsKnown(f, t) ==
    IF f.id \in DOMAIN stateRef THEN stateRef[f.id]
    ELSE [lat |-> f.latitude, lon |-> f.longitude, alt |-> f.altitude,
          heading |-> f.heading, speed |-> f.speed, updatedAt |-> t]

\* flightStateRef.current.set(f.icao24, {lat, lon, alt, heading, speed, updatedAt: Date.now()})
NewState(f, t) ==
    [lat |-> f.latitude, lon |-> f.longitude, alt |-> f.altitude,
     heading |-> f.heading, speed |-> f.speed, updatedAt |-> t]

\* the backing entity of f: the one entityMapRef holds, else a new one added to
\* viewer.entities
BackingEntity(r, f) ==
    IF f.id \in DOMAIN r.ent THEN r.ent[f.id]
    ELSE [oid |-> Fresh(r.usedE, f.id), kind |-> layer, key |-> f.id]

\* ShipLayer only: far-side occlusion of the entity just synced
SyncOcclusion(p, position, cam) ==
    IF layer = "ship"
    THEN [p EXCEPT !.billboardShow = isPointVisible(cam, position),
                   !.labelShow = isPointVisible(cam, position) /\ trackedInfo = "null"]
    ELSE p

\* an update that leaves the primitive where the last tick put it
UpdateInPlace_KeepsPosition(existing, position) == existing

\* Billboard + Label: update in place
UpdateInPlace(existing, position) == [existing EXCEPT !.position = position]

\* Billboard + Label: create (cols.billboards.add, cols.labels.add)
CreatePrimitive(obj, position, backingEntity) ==
    [obj |-> obj, position |-> position, id |-> backingEntity,
     billboardShow |-> TRUE, labelShow |-> TRUE]

\* an iteration that never looks primitiveMapRef up: it adds a new billboard
\* and label for the record, whether or not the id already holds a pair
SyncEntity_AlwaysCreates(r, f, t, cam) ==
    LET position == Cartesian3FromDegrees(f.longitude, f.latitude, f.altitude)
        backingEntity == BackingEntity(r, f)
        p == CreatePrimitive([oid |-> Fresh(r.usedP, f.id), key |-> f.id],
                             position, backingEntity)
    IN  [state |-> Put(r.state, f.id, NewState(f, t)),
         pos |-> Put(r.pos, f.id, position),
         ent |-> Put(r.ent, f.id, backingEntity),
         prim |-> Put(r.prim, f.id, SyncOcclusion(p, position, cam)),
         vents |-> r.vents \cup {backingEntity},
         bills |-> r.bills \cup {p.obj},
         lbls |-> r.lbls \cup {p.obj},
         active |-> r.active \cup {f.id},
         usedE |-> r.usedE \cup {backingEntity},
         usedP |-> r.usedP \cup {p.obj}]

\* one iteration of `for (const f of flights)` for an entity that passes the filter
SyncEntity(r, f, t, cam) ==
    LET position == Cartesian3FromDegrees(f.longitude, f.latitude, f.altitude)
        isNewEntity == f.id \notin DOMAIN r.ent
        backingEntity == BackingEntity(r, f)
        existing == f.id \in DOMAIN r.prim
        p == IF existing THEN UpdateInPlace(r.prim[f.id], position)
             ELSE CreatePrimitive([oid |-> Fresh(r.usedP, f.id), key |-> f.id],
                                  position, backingEntity)
    IN  [state |-> Put(r.state, f.id, NewState(f, t)),
         pos |-> Put(r.pos, f.id, position),
         ent |-> Put(r.ent, f.id, backingEntity),
         prim |-> Put(r.prim, f.id, SyncOcclusion(p, position, cam)),
         vents |-> r.vents \cup {backingEntity},
         bills |-> r.bills \cup {p.obj},
         lbls |-> r.lbls \cup {p.obj},
         active |-> r.active \cup {f.id},
         usedE |-> r.usedE \cup {backingEntity},
         usedP |-> r.usedP \cup {p.obj}]

RECURSIVE SyncLoop(_, _, _, _, _, _)
SyncLoop(r, b, flt, t, cam, i) ==
    IF i > Len(b) THEN r
    ELSE IF ~PassesFilter(b[i], flt) THEN SyncLoop(r, b, flt, t, cam, i + 1)
    ELSE SyncLoop(SyncEntity(r, b[i], t, cam), b, flt, t, cam, i + 1)

\* a hidden/empty path that clears the map and leaves the collections alone
SyncHidden_KeepsPrimitives(r) ==
    [r EXCEPT !.prim = EmptyMap]

\* the iteration that leaves the loop: f needs a new backing entity and
\* `viewer.entities.add(backingEntity)` throws (or the viewer is found
\* destroyed just before).  What the iteration did up to there stays: the id
\* is active, its state and its position are stored.
SyncBreak(r, f, t) ==
    [r EXCEPT !.state = Put(r.state, f.id, NewState(f, t)),
              !.pos = Put(r.pos, f.id,
                          Cartesian3FromDegrees(f.longitude, f.latitude, f.altitude)),
              !.active = r.active \cup {f.id}]

\* the loop when the creation of the backing entity fails at iteration failAt:
\* `break` ends the loop there
RECURSIVE SyncLoopBreaking(_, _, _, _, _, _, _)
SyncLoopBreaking(r, b, flt, t, cam, i, failAt) ==
    IF i > Len(b) THEN r
    ELSE IF ~PassesFilter(b[i], flt) THEN SyncLoopBreaking(r, b, flt, t, cam, i + 1, failAt)
    ELSE IF i = failAt /\ b[i].id \notin DOMAIN r.ent THEN SyncBreak(r, b[i], t)
    ELSE SyncLoopBreaking(SyncEntity(r, b[i], t, cam), b, flt, t, cam, i + 1, failAt)

\* `if (!visible || flights.length === 0)`: removeAll() and clear the map
SyncHidden(r) ==
    [r EXCEPT !.bills = {}, !.lbls = {}, !.prim = EmptyMap]

\* a sync that forgets to remove the stale primitives
RemoveStale_KeepsStale(r) == r

\* Remove stale primitives
RemoveStale(r) ==
    LET stale == (DOMAIN r.prim) \ r.active IN
    [r EXCEPT !.bills = r.bills \ {r.prim[k].obj : k \in stale},
              !.lbls = r.lbls \ {r.prim[k].obj : k \in stale},
              !.prim = [k \in (DOMAIN r.prim) \ stale |-> r.prim[k]]]

\* a prune without the `viewer.trackedEntity !== entity` guard
Prunable_NoTrackedGuard(r, tracked) ==
    {k \in DOMAIN r.ent : k \notin r.active}

\* the ids the prune deletes: not active and not the tracked entity
Prunable(r, tracked) ==
    {k \in DOMAIN r.ent : k \notin r.active /\ tracked # r.ent[k]}

\* a prune whose guard protects the entity alone: the state and the position
\* of every inactive id are deleted
PruneBackingEntities_DropsState(r, tracked) ==
    LET gone == Prunable(r, tracked) IN
    [r EXCEPT !.vents = r.vents \ {r.ent[k] : k \in gone},
              !.ent = [k \in (DOMAIN r.ent) \ gone |-> r.ent[k]],
              !.pos = [k \in (DOMAIN r.pos) \cap r.active |-> r.pos[k]],
              !.state = [k \in (DOMAIN r.state) \cap r.active |-> r.state[k]]]

\* Prune backing entities (never prune tracked)
PruneBackingEntities(r, tracked) ==
    LET gone == Prunable(r, tracked) IN
    [r EXCEPT !.vents = r.vents \ {r.ent[k] : k \in gone},
              !.ent = [k \in (DOMAIN r.ent) \ gone |-> r.ent[k]],
              !.pos = [k \in (DOMAIN r.pos) \ gone |-> r.pos[k]],
              !.state = [k \in (DOMAIN r.state) \ gone |-> r.state[k]]]

\* the whole effect, run with the props (b, vis, flt) at time t, the camera at cam
RunSync(b, vis, flt, t, cam) ==
    IF ~mounted THEN Refs
    ELSE IF ~vis \/ Len(b) = 0 THEN SyncHidden(Refs)
    ELSE PruneBackingEntities(RemoveStale(SyncLoop(Refs, b, flt, t, cam, 1)), trackedEntity)

\* the refs after the effect become the next state
Commit(r) ==
    /\ stateRef' = r.state
    /\ positionMapRef' = r.pos
    /\ entityMapRef' = r.ent
    /\ primitiveMapRef' = r.prim
    /\ viewerEntities' = r.vents
    /\ billboards' = r.bills
    /\ labels' = r.lbls

(***************************************************************************)
(* Effect 3: visibility toggling.                                          *)
(***************************************************************************)
\* (SatelliteLayer has no such effect: it passes hideLabel = isTracking to the
\* LabelGraphics of every entity it renders)
VisibilityEffect(vis, info) ==
    IF layer = "sat"
    THEN /\ billboardsShow' = billboardsShow
         /\ labelsShow' = (info = "null")
    ELSE /\ billboardsShow' = IF mounted THEN vis ELSE billboardsShow
         /\ labelsShow' = IF mounted THEN (vis /\ info = "null") ELSE labelsShow

Op(name) ==
    [name |-> name,
     had |-> IF name # "sync" THEN {}
             ELSE IF layer = "sat" THEN DOMAIN entityMapRef
             ELSE DOMAIN primitiveMapRef,
     moved |-> IF name # "sync" \/ layer = "sat" THEN {}
               ELSE {k \in (DOMAIN primitiveMapRef) \cap (DOMAIN stateRef) :
                       primitiveMapRef[k].position # LastKnown(stateRef[k])}]

lockVars == <<trackedInfo, trackedEntity, isTrackingRef>>
propVars == <<batch, visible, filter>>
refVars == <<stateRef, positionMapRef, entityMapRef, primitiveMapRef,
             viewerEntities, billboards, labels>>

(***************************************************************************)
(* The props change and the component re-renders: Effect 2 runs whenever   *)
(* flights, visible or altitudeFilter changed, Effect 3 whenever visible   *)
(* or isTracking changed.                                                  *)
(***************************************************************************)
\* the feed hook delivers a new array
SetBatch(b, cam) ==
    /\ mounted
    /\ batch' = b
    /\ Commit(RunSync(b, visible, filter, now, cam))
    /\ lastOp' = Op("sync")
    /\ UNCHANGED <<auxVars, cctvTrackEntityRef, scenario, layer, mounted, visible, filter, lockVars, notified, now,
                   lastBulkUpdate, billboardsShow, labelsShow>>

\* iteration failAt of a commit of b creates a backing entity: the record
\* passes the filter and its id has no entity yet, neither from an earlier
\* commit nor from an earlier iteration
CreatesEntityAt(b, failAt) ==
    /\ failAt \in 1..Len(b)
    /\ PassesFilter(b[failAt], filter)
    /\ b[failAt].id \notin DOMAIN entityMapRef
    /\ \A j \in 1..(failAt - 1) : PassesFilter(b[j], filter) => b[j].id # b[failAt].id

\* the feed hook delivers a new array and, in the sync, the creation of the
\* backing entity of record failAt fails; stale removal and prune run after
\* the `break` as after a whole loop
SetBatchBreaking(b, cam, failAt) ==
    /\ mounted /\ visible
    /\ CreatesEntityAt(b, failAt)
    /\ batch' = b
    /\ Commit(PruneBackingEntities(
                RemoveStale(SyncLoopBreaking(Refs, b, filter, now, cam, 1, failAt)),
                trackedEntity))
    /\ lastOp' = Op("sync")
    /\ UNCHANGED <<auxVars, cctvTrackEntityRef, scenario, layer, mounted, visible, filter, lockVars, notified, now,
                   lastBulkUpdate, billboardsShow, labelsShow>>

\* the layer toggle of the operations panel
ToggleVisible(cam) ==
    /\ mounted
    /\ visible' = ~visible
    /\ Commit(RunSync(batch, ~visible, filter, now, cam))
    /\ VisibilityEffect(~visible, trackedInfo)
    /\ lastOp' = Op("sync")
    /\ UNCHANGED <<auxVars, cctvTrackEntityRef, scenario, layer, mounted, batch, filter, lockVars, notified, now,
                   lastBulkUpdate>>

\* an altitude-band toggle of the operations panel (FlightLayer only)
ToggleAltitudeFilter(band) ==
    /\ mounted
    /\ layer = "flight"
    /\ filter' = [filter EXCEPT ![band] = ~filter[band]]
    /\ Commit(RunSync(batch, visible, filter', now, "near"))
    /\ lastOp' = Op("sync")
    /\ UNCHANGED <<auxVars, cctvTrackEntityRef, scenario, layer, mounted, batch, visible, lockVars, notified, now,
                   lastBulkUpdate, billboardsShow, labelsShow>>

(***************************************************************************)
(* Time passes.  The instants at which handlers run are half a horizon,    *)
(* then whole horizons, apart: an entity's age can be 0, below, at and     *)
(* beyond the horizon.                                                     *)
(***************************************************************************)
ClockSteps ==
    IF scenario \in {"clock", "frames"} THEN MaxClockSteps ELSE MaxSyncClockSteps

\* In the "frames" scenario the instants are frames one second apart, then
\* one frame a horizon after the first.
LastFrame == ClockStep + ClockSteps

LastInstant ==
    IF scenario = "frames" THEN ClockStep + Horizon
    ELSE IF ClockSteps = 0 THEN ClockStep ELSE 2 * ClockStep * ClockSteps

AdvanceClock ==
    /\ now < LastInstant
    /\ now' = IF scenario = "frames"
              THEN (IF now < LastFrame THEN now + 1 ELSE LastInstant)
              ELSE IF now = ClockStep THEN 2 * ClockStep ELSE now + 2 * ClockStep
    /\ UNCHANGED <<auxVars, cctvTrackEntityRef, scenario, layer, mounted, propVars, lockVars, notified, lastBulkUpdate,
                   refVars, billboardsShow, labelsShow, lastOp>>

(***************************************************************************)
(* Effect 4: dead reckoning in the preUpdate listener, once per frame.     *)
(***************************************************************************)
\* tracked.id.startsWith('flight-') ? tracked.id.slice(7) : null
TrackedKey == IF trackedEntity.kind = layer THEN {trackedEntity.key} ELSE {}

\* ShipLayer only: occlusion of every primitive from its positionMap entry
OcclusionPass(prim, pos, cam) ==
    IF layer = "ship"
    THEN [k \in DOMAIN prim |->
            IF k \in DOMAIN pos
            THEN [prim[k] EXCEPT !.billboardShow = isPointVisible(cam, pos[k]),
                                 !.labelShow = isPointVisible(cam, pos[k])]
            ELSE prim[k]]
    ELSE prim

\* Tracked flight: dead-reckon every frame
TrackedTick(r, t) ==
    IF \E k \in TrackedKey : k \in DOMAIN stateRef
    THEN LET k == trackedEntity.key
             p == TrackedPosition(stateRef[k], t)
         IN [pos |-> Put(r.pos, k, p),
             prim |-> IF k \in DOMAIN r.prim
                      THEN [r.prim EXCEPT ![k].position = p] ELSE r.prim]
    ELSE r

\* a bulk tick that also writes the followed id
BulkWritten_IncludesTracked(r, t) ==
    {k \in DOMAIN r.prim : k \in DOMAIN stateRef /\ ~BulkSkips(stateRef[k], t)}

\* the ids the bulk tick writes
BulkWritten(r, t) ==
    {k \in DOMAIN r.prim :
        k \notin TrackedKey /\ k \in DOMAIN stateRef /\ ~BulkSkips(stateRef[k], t)}

\* a bulk tick that removes the handles of the ids it skips
BulkTick_DropsSkipped(r, t) ==
    LET w == BulkWritten(r, t) IN
    [pos |-> r.pos,
     prim |-> [k \in w \cup ((DOMAIN r.prim) \cap TrackedKey) |->
                IF k \in w THEN [r.prim[k] EXCEPT !.position = BulkPosition(stateRef[k], t)]
                ELSE r.prim[k]]]

\* Bulk dead-reckon all others
BulkTick(r, t) ==
    LET w == BulkWritten(r, t) IN
    [pos |-> [k \in (DOMAIN r.pos) \cup w |->
                IF k \in w THEN BulkPosition(stateRef[k], t) ELSE r.pos[k]],
     prim |-> [k \in DOMAIN r.prim |->
                IF k \in w THEN [r.prim[k] EXCEPT !.position = BulkPosition(stateRef[k], t)]
                ELSE r.prim[k]]]

BulkDue == (now - lastBulkUpdate) * 1000 >= BULK_MS

PreUpdate(cam) ==
    /\ mounted
    /\ LET r0 == [pos |-> positionMapRef,
                  prim |-> OcclusionPass(primitiveMapRef, positionMapRef, cam)]
           r1 == TrackedTick(r0, now)
           r2 == IF BulkDue THEN BulkTick(r1, now) ELSE r1
       IN /\ positionMapRef' = r2.pos
          /\ primitiveMapRef' = r2.prim
    /\ lastBulkUpdate' = IF BulkDue THEN now ELSE lastBulkUpdate
    /\ lastOp' = Op("tick")
    /\ UNCHANGED <<auxVars, cctvTrackEntityRef, scenario, layer, mounted, propVars, lockVars, notified, now, stateRef,
                   entityMapRef, viewerEntities, billboards, labels, billboardsShow,
                   labelsShow>>

(***************************************************************************)
(* EntityClickHandler: lock and unlock.                                    *)
(***************************************************************************)
\* viewer.trackedEntity = entity; isTrackingRef.current = true; onTrackEntity(info)
\* App.handleTrackEntity stores the info, and Effect 3 re-runs with isTracking
\* (and, the info being no CCTV one, removes the entity of a CCTV lock-on)
Lock(entity) ==
    /\ trackedEntity' = entity
    /\ isTrackingRef' = TRUE
    /\ notified' = entity.key
    /\ trackedInfo' = entity.key
    /\ cctvTrackEntityRef' = NoEntity
    /\ VisibilityEffect(visible, entity.key)

\* unlock(): clear the tracked entity and notify null
Unlock ==
    /\ isTrackingRef' = FALSE
    /\ trackedEntity' = NoEntity
    /\ notified' = "null"
    /\ trackedInfo' = "null"
    /\ cctvTrackEntityRef' = NoEntity
    /\ VisibilityEffect(visible, "null")

\* an empty-space click / Escape that unlocks without looking at the lock
UnlockIfTracking_Unconditional == Unlock

\* `if (isTrackingRef.current || viewer.trackedEntity) unlock();`
UnlockIfTracking ==
    IF isTrackingRef \/ trackedEntity # NoEntity
    THEN Unlock
    ELSE /\ notified' = "none"
         /\ UNCHANGED <<lockVars, cctvTrackEntityRef, billboardsShow, labelsShow>>

\* the entities drillPick can return: the backing entity of a drawn billboard
Pickable(k) ==
    /\ mounted
    /\ k \in DOMAIN primitiveMapRef
    /\ billboardsShow
    /\ primitiveMapRef[k].billboardShow

\* LEFT_CLICK on a billboard of this layer
ClickEntity(k) ==
    /\ Pickable(k)
    /\ Lock(primitiveMapRef[k].id)
    /\ UNCHANGED <<auxVars, scenario, layer, mounted, propVars, now, lastBulkUpdate, refVars, lastOp>>

\* LEFT_CLICK on an entity of another layer (an earthquake marker)
ClickOther ==
    /\ QuakeEntity \in viewerEntities
    /\ Lock(QuakeEntity)
    /\ UNCHANGED <<auxVars, scenario, layer, mounted, propVars, now, lastBulkUpdate, refVars, lastOp>>

\* LEFT_CLICK on empty space
ClickEmpty ==
    /\ UnlockIfTracking
    /\ UNCHANGED <<auxVars, scenario, layer, mounted, propVars, now, lastBulkUpdate, refVars, lastOp>>

\* keydown Escape
Escape ==
    /\ UnlockIfTracking
    /\ UNCHANGED <<auxVars, scenario, layer, mounted, propVars, now, lastBulkUpdate, refVars, lastOp>>

(***************************************************************************)
(* The application's own handlers on the lock: the unlock button of the    *)
(* tracked-entity panel, reset view, the fly-to of a geolocation fix and   *)
(* the lock-on to a CCTV camera.                                           *)
(***************************************************************************)
\* <TrackedEntityPanel trackedEntity={trackedEntity} isMobile={isMobile} />:
\* the button's onClick is the onUnlock prop, which App does not pass
PanelUnlock ==
    /\ trackedInfo # "null"
    /\ notified' = "none"
    /\ UNCHANGED <<auxVars, cctvTrackEntityRef, scenario, layer, mounted, propVars,
                   lockVars, now, lastBulkUpdate, refVars, billboardsShow,
                   labelsShow, lastOp>>

\* viewer.trackedEntity = undefined; setTrackedEntity(null); camera.flyTo(...)
ClearTracked ==
    /\ trackedEntity' = NoEntity
    /\ trackedInfo' = "null"
    /\ notified' = "none"
    /\ VisibilityEffect(visible, "null")
    /\ UNCHANGED <<auxVars, cctvTrackEntityRef, isTrackingRef, scenario, layer,
                   mounted, propVars, now, lastBulkUpdate, refVars, lastOp>>

\* handleResetView
ResetView == ClearTracked

\* the effect that flies to the user's location once geolocation succeeds
GeoFlyTo == ClearTracked

\* handleCctvLockOn: drop the previous temporary entity, add one at the camera,
\* track it and set the application's trackedEntity state
CctvLockOn ==
    /\ cctvTrackEntityRef' = CctvEntity
    /\ trackedEntity' = CctvEntity
    /\ trackedInfo' = CctvEntity.key
    /\ notified' = "none"
    /\ VisibilityEffect(visible, CctvEntity.key)
    /\ UNCHANGED <<auxVars, isTrackingRef, scenario, layer, mounted, propVars, now,
                   lastBulkUpdate, refVars, lastOp>>

(***************************************************************************)
(* Unmount: the cleanups of Effect 1, Effect 4 and the unmount effect.     *)
(***************************************************************************)
\* viewer.entities.remove(e) for every e of gone; the Cesium viewer drops its
\* trackedEntity when that entity leaves the collection
ViewerTrackedAfterRemove(gone) ==
    IF trackedEntity \in gone THEN NoEntity ELSE trackedEntity

\* an unmount that, like the prune of the sync, spares the followed entity
Unmount_SparesTracked ==
    /\ mounted
    /\ mounted' = FALSE
    /\ billboards' = {}
    /\ labels' = {}
    /\ primitiveMapRef' = EmptyMap
    /\ viewerEntities' =
         viewerEntities \ ({entityMapRef[k] : k \in DOMAIN entityMapRef} \ {trackedEntity})
    /\ trackedEntity' = trackedEntity
    /\ entityMapRef' = EmptyMap
    /\ positionMapRef' = EmptyMap
    /\ stateRef' = EmptyMap
    /\ lastOp' = Op("unmount")
    /\ UNCHANGED <<auxVars, cctvTrackEntityRef, scenario, layer, propVars, trackedInfo, isTrackingRef, notified, now,
                   lastBulkUpdate, billboardsShow, labelsShow>>

\* the cleanups of Effect 1 (collections removed from the scene, collectionsRef
\* and primitiveMapRef cleared), of Effect 4 (preUpdate listener removed) and of
\* the unmount effect (backing entities removed, the three maps cleared)
Unmount ==
    /\ mounted
    /\ mounted' = FALSE
    /\ billboards' = {}
    /\ labels' = {}
    /\ primitiveMapRef' = EmptyMap
    /\ viewerEntities' = viewerEntities \ {entityMapRef[k] : k \in DOMAIN entityMapRef}
    /\ trackedEntity' =
         ViewerTrackedAfterRemove({entityMapRef[k] : k \in DOMAIN entityMapRef})
    /\ entityMapRef' = EmptyMap
    /\ positionMapRef' = EmptyMap
    /\ stateRef' = EmptyMap
    /\ lastOp' = Op("unmount")
    /\ UNCHANGED <<auxVars, cctvTrackEntityRef, scenario, layer, propVars, trackedInfo, isTrackingRef, notified, now,
                   lastBulkUpdate, billboardsShow, labelsShow>>

(***************************************************************************)
(* SatelliteLayer: a declarative component.  Every render returns one      *)
(* <SatelliteEntity key={noradId}> per satellite of the batch whose        *)
(* category is switched on, or null when the layer is hidden or the batch  *)
(* is empty; React keeps the component (and resium its Cesium Entity       *)
(* `sat-<noradId>`) of a key that is rendered again, mounts one for a new  *)
(* key and unmounts the others, which removes their Entity from            *)
(* viewer.entities.  Here entityMapRef holds the mounted entities,         *)
(* positionMapRef their cachedPositionRef and stateRef their isFarSide.    *)
(***************************************************************************)
ISS_NORAD_ID == "25544"

Sat(noradId, nameHasISS) == [id |-> noradId, nameHasISS |-> nameHasISS]

\* the satellites of the TLE set: ISS (ZARYA) and HST
Satellites == { Sat(ISS_NORAD_ID, TRUE), Sat("20580", FALSE) }

SatIds == {sat.id : sat \in Satellites}

\* useSatellites builds the batch from the TLE list, skipping the satellites
\* whose propagation fails: no noradId occurs twice
SatBatches ==
    {b \in UNION { [1..n -> Satellites] : n \in 0..MaxBatchLen } :
        \A i, j \in 1..Len(b) : b[i].id = b[j].id => i = j}

SatelliteCategories == {"iss", "other"}

DEFAULT_SATELLITE_FILTER == [c \in SatelliteCategories |-> TRUE]

\* isISS = sat.name.includes('ISS') || sat.noradId === 25544
SatelliteCategory(sat) ==
    IF sat.nameHasISS \/ sat.id = ISS_NORAD_ID THEN "iss" ELSE "other"

\* satellite.js propagate + eciToGeodetic at time t: an equatorial orbit, the
\* ISS a quarter of a degree per second, the others a tenth
SatPropagate(k, t) ==
    Cartesian3FromDegrees((IF k = ISS_NORAD_ID THEN 250000 ELSE 100000) * t, 0, 400000)

\* the keys SatelliteLayer renders with props (b, vis, flt)
SatRendered(b, vis, flt) ==
    IF ~vis \/ Len(b) = 0 THEN {}
    ELSE {b[i].id : i \in {j \in 1..Len(b) : flt[SatelliteCategory(b[j])]}}

\* mount of one SatelliteEntity: the Entity is added to the viewer and the
\* effect runs updatePosition() at once
SatMount(r, k, t, cam) ==
    LET e == [oid |-> Fresh(r.usedE, k), kind |-> "sat", key |-> k] IN
    [r EXCEPT !.ent = Put(r.ent, k, e),
              !.pos = Put(r.pos, k, SatPropagate(k, t)),
              !.state = Put(r.state, k,
                            [isFarSide |-> ~isPointVisible(cam, SatPropagate(k, t))]),
              !.vents = r.vents \cup {e},
              !.usedE = r.usedE \cup {e}]

RECURSIVE SatMountLoop(_, _, _, _, _, _)
SatMountLoop(r, b, rendered, t, cam, i) ==
    IF i > Len(b) THEN r
    ELSE IF b[i].id \in rendered /\ b[i].id \notin DOMAIN r.ent
         THEN SatMountLoop(SatMount(r, b[i].id, t, cam), b, rendered, t, cam, i + 1)
         ELSE SatMountLoop(r, b, rendered, t, cam, i + 1)

\* unmount of the SatelliteEntity components whose key is no longer rendered
SatUnmount(r, rendered) ==
    LET gone == (DOMAIN r.ent) \ rendered IN
    [r EXCEPT !.vents = r.vents \ {r.ent[k] : k \in gone},
              !.ent = [k \in (DOMAIN r.ent) \ gone |-> r.ent[k]],
              !.pos = [k \in (DOMAIN r.pos) \ gone |-> r.pos[k]],
              !.state = [k \in (DOMAIN r.state) \ gone |-> r.state[k]]]

\* one render of SatelliteLayer and the reconciliation that follows it
SatRender(b, vis, flt, cam) ==
    LET rendered == SatRendered(b, vis, flt)
        r == SatMountLoop(SatUnmount(Refs, rendered), b, rendered, now, cam, 1)
    IN /\ Commit(r)
       /\ trackedEntity' =
            ViewerTrackedAfterRemove(viewerEntities \ r.vents)
       /\ lastOp' = Op("sync")

\* useSatellites delivers a new array
SatSetBatch(b, cam) ==
    /\ batch' = b
    /\ SatRender(b, visible, filter, cam)
    /\ UNCHANGED <<auxVars, cctvTrackEntityRef, scenario, layer, mounted, visible, filter, trackedInfo, isTrackingRef,
                   notified, now, lastBulkUpdate, billboardsShow, labelsShow>>

\* the layer toggle of the operations panel
SatToggleVisible(cam) ==
    /\ visible' = ~visible
    /\ SatRender(batch, ~visible, filter, cam)
    /\ UNCHANGED <<auxVars, cctvTrackEntityRef, scenario, layer, mounted, batch, filter, trackedInfo, isTrackingRef,
                   notified, now, lastBulkUpdate, billboardsShow, labelsShow>>

\* handleSatCategoryToggle
SatToggleCategory(category, cam) ==
    /\ filter' = [filter EXCEPT ![category] = ~filter[category]]
    /\ SatRender(batch, visible, filter', cam)
    /\ UNCHANGED <<auxVars, cctvTrackEntityRef, scenario, layer, mounted, batch, visible, trackedInfo, isTrackingRef,
                   notified, now, lastBulkUpdate, billboardsShow, labelsShow>>

\* updatePosition of one mounted SatelliteEntity, on its 200 ms interval
SatUpdatePosition(k, cam) ==
    /\ k \in DOMAIN entityMapRef
    /\ positionMapRef' = Put(positionMapRef, k, SatPropagate(k, now))
    /\ stateRef' = Put(stateRef, k,
                       [isFarSide |-> ~isPointVisible(cam, SatPropagate(k, now))])
    /\ lastOp' = Op("tick")
    /\ UNCHANGED <<auxVars, cctvTrackEntityRef, scenario, layer, mounted, propVars, lockVars, notified, now,
                   lastBulkUpdate, entityMapRef, primitiveMapRef, viewerEntities,
                   billboards, labels, billboardsShow, labelsShow>>

\* LEFT_CLICK on a satellite: its Entity is shown (show={!isFarSide})
ClickSat(k) ==
    /\ k \in DOMAIN entityMapRef
    /\ ~stateRef[k].isFarSide
    /\ Lock(entityMapRef[k])
    /\ UNCHANGED <<auxVars, scenario, layer, mounted, propVars, now, lastBulkUpdate, refVars, lastOp>>

(***************************************************************************)
(* classifyEntity and the view offset of a lock.  A text (an entity's name *)
(* or description, lower-cased) is modelled by the set of the keywords     *)
(* classifyEntity looks for that it contains.  An entity of this section   *)
(* carries its name, its description and its viewFrom offset.              *)
(***************************************************************************)
\* the lengths (metres) of the two components of the viewFrom offsets
SATELLITE_VIEW_OFFSET == 500000
AIRCRAFT_VIEW_OFFSET == 30000
OTHER_VIEW_OFFSET == 200000

EntityKinds == {"flight", "ship", "sat", "quake"}

\* the keywords the description template of each layer always contains:
\* buildFlightDescription (Callsign, Aircraft, Altitude in ft and m, Squawk,
\* ICAO24), buildShipDescription (none: `Call Sign` has a space), the
\* SatelliteEntity description (NORAD ID, Altitude in km) and the
\* earthquake description (Magnitude, Depth in km)
TemplateWords(kind) ==
    IF kind = "flight" THEN {"callsign", "aircraft", "altitude", "squawk", "icao24"}
    ELSE IF kind = "sat" THEN {"norad", "altitude", "km"}
    ELSE IF kind = "quake" THEN {"magnitude", "depth", "km"}
    ELSE {}

\* the keywords the feed's free text can bring into a name (call sign, vessel
\* name, satellite name, place of an earthquake) and into the description of
\* an aircraft or a vessel (call sign, registration, operator, destination,
\* ...); the other two descriptions embed numbers only
NameWords == SUBSET {"iss"}

FreeWords(kind) ==
    IF kind \in {"flight", "ship"} THEN SUBSET {"km", "aircraft", "depth"} ELSE {{}}

\* the entities a click can pick
PickedEntities ==
    UNION {{[oid |-> 1, kind |-> kind, key |-> k, name |-> n,
             description |-> TemplateWords(kind) \cup w, viewFrom |-> 0] :
               k \in Ids, n \in NameWords, w \in FreeWords(kind)} :
           kind \in EntityKinds}

classifyEntity(entity) ==
    LET name == entity.name
        desc == entity.description
    IN  IF "norad" \in desc \/ "iss" \in name \/ ("altitude" \in desc /\ "km" \in desc)
        THEN "satellite"
        ELSE IF "callsign" \in desc \/ "icao24" \in desc \/ "aircraft" \in desc
                \/ "squawk" \in desc
        THEN "aircraft"
        ELSE IF "magnitude" \in desc \/ "depth" \in desc
        THEN "earthquake"
        ELSE "unknown"

\* Set a sensible viewFrom offset so the camera arrives at a useful distance
ViewFromOffset(entityType) ==
    IF entityType = "satellite" THEN SATELLITE_VIEW_OFFSET
    ELSE IF entityType = "aircraft" THEN AIRCRAFT_VIEW_OFFSET
    ELSE OTHER_VIEW_OFFSET

\* LEFT_CLICK on an entity: classify it, set its viewFrom, lock onto it
ClickPicked(entity) ==
    /\ Lock([entity EXCEPT !.viewFrom = ViewFromOffset(classifyEntity(entity))])
    /\ UNCHANGED <<auxVars, scenario, layer, mounted, propVars, now, lastBulkUpdate, refVars, lastOp>>

\* everything the layers, the click handler and the application's lock
\* handlers hold
layerVars ==
    <<scenario, layer, mounted, propVars, lockVars, cctvTrackEntityRef, notified, now,
      lastBulkUpdate, refVars, billboardsShow, labelsShow, lastOp>>

(***************************************************************************)
(* The polling hooks.  useFlights, useShips and useFlightsLive run one     *)
(* fetch chain per effect: fetch, await the response, then set a timeout   *)
(* for the next fetch unless the effect was cancelled meanwhile.  An       *)
(* effect is known by its serial; the effect of the latest render is the   *)
(* current one, every earlier one is cancelled.  useCameras polls with     *)
(* setInterval from an effect that depends on retryCount.  Delays are in   *)
(* milliseconds.                                                           *)
(***************************************************************************)
ChainHooks == {"useFlights", "useShips", "useFlightsLive"}
Hooks == ChainHooks \cup {"useCameras"}

\* POLL_INTERVAL / LIVE_POLL_INTERVAL
PollInterval(hook) ==
    CASE hook = "useFlights" -> 20000
      [] hook = "useShips" -> 30000
      [] hook = "useFlightsLive" -> 5000
      [] OTHER -> 5 * 60 * 1000

\* ERROR_BACKOFF_BASE / ERROR_BACKOFF / RETRY_BASE
BackoffBase(hook) == IF hook = "useFlightsLive" THEN 15000 ELSE 30000

\* MAX_BACKOFF / RETRY_CAP
BackoffMax(hook) == IF hook = "useFlightsLive" THEN 60000 ELSE 120000

Min(x, y) == IF x <= y THEN x ELSE y

\* a backoff that grows by the base with every error and has no ceiling
Backoff_Linear(hook, errors) ==
    IF errors > 0 THEN BackoffBase(hook) * errors ELSE PollInterval(hook)

\* consecutiveErrors > 0 ? Math.min(BASE * Math.pow(2, consecutiveErrors - 1), MAX)
\*                       : POLL_INTERVAL
Backoff(hook, errors) ==
    IF errors > 0
    THEN Min(BackoffBase(hook) * 2 ^ (errors - 1), BackoffMax(hook))
    ELSE PollInterval(hook)

MaxErrors == 4
MaxEffects == 5
MaxInFlight == 2

\* the camera regions (stableLat, stableLon) of useFlightsLive; the other
\* hooks have one
Regions(hook) == IF hook = "useFlightsLive" THEN {1, 2} ELSE {1}

\* the hook after its first render with polling off: the effect has set the
\* empty list and started nothing.  `streak` counts the failed responses since
\* the last successful one, `waited` the time between the latest failure and
\* the latest fetch, `applied` tells what the latest response did.
IdlePoll(hook) ==
    [hook |-> hook, shouldPoll |-> FALSE, region |-> 1, effect |-> 0, serial |-> 0,
     consecutiveErrors |-> 0, flights |-> <<>>, inFlight |-> {}, timer |-> <<>>,
     streak |-> 0, waited |-> <<>>, applied |-> "none"]

\* the cleanup of the previous effect (cancelled = true; clearTimeout /
\* clearInterval) and the effect of the new render: off, it sets the empty
\* list; on, it issues a fetch at once
RunPollEffect(p, shouldPoll, region) ==
    IF ~shouldPoll
    THEN [p EXCEPT !.shouldPoll = FALSE, !.region = region, !.effect = 0,
                   !.timer = <<>>, !.flights = <<>>, !.applied = "none"]
    ELSE [p EXCEPT !.shouldPoll = TRUE, !.region = region,
                   !.serial = p.serial + 1, !.effect = p.serial + 1,
                   !.inFlight = p.inFlight \cup
                                {[effect |-> p.serial + 1, region |-> region]},
                   !.timer = IF p.hook = "useCameras"
                             THEN <<[effect |-> p.serial + 1,
                                     delay |-> Backoff(p.hook, p.consecutiveErrors)]>>
                             ELSE <<>>,
                   !.waited = IF p.streak > 0 THEN <<0>> ELSE <<>>,
                   !.applied = "none"]

\* the props change: enabled, the camera region, the zoom or the lock
SetPolling(shouldPoll, region) ==
    /\ scenario = "poll"
    /\ <<shouldPoll, region>> # <<poll.shouldPoll, poll.region>>
    /\ region \in Regions(poll.hook)
    /\ shouldPoll => poll.serial < MaxEffects /\ Cardinality(poll.inFlight) < MaxInFlight
    /\ poll' = RunPollEffect(poll, shouldPoll, region)
    /\ UNCHANGED <<layerVars, fnVars, satellites, wsServer>>

\* what a response leaves of the fetch chain: a cancelled effect schedules
\* nothing, the current one sets its next timeout
ScheduleNext(p, f) ==
    IF f.effect = p.effect
    THEN [p EXCEPT !.timer = <<[effect |-> f.effect,
                                delay |-> Backoff(p.hook, p.consecutiveErrors)]>>]
    ELSE p

\* the response of fetch f is ok: consecutiveErrorsRef.current = 0;
\* setFlights(airborne); then `if (cancelled) return;` and the next timeout
FetchSucceeds(f) ==
    /\ scenario = "poll" /\ poll.hook \in ChainHooks
    /\ f \in poll.inFlight
    /\ poll' = ScheduleNext([poll EXCEPT !.inFlight = @ \ {f},
                                         !.consecutiveErrors = 0,
                                         !.flights = <<f>>,
                                         !.streak = 0,
                                         !.applied = "success"], f)
    /\ UNCHANGED <<layerVars, fnVars, satellites, wsServer>>

\* the fetch f fails: consecutiveErrorsRef.current++; then `if (cancelled)
\* return;` and the next timeout
FetchFails(f) ==
    /\ scenario = "poll" /\ poll.hook \in ChainHooks
    /\ f \in poll.inFlight
    /\ poll.consecutiveErrors < MaxErrors
    /\ poll' = ScheduleNext([poll EXCEPT !.inFlight = @ \ {f},
                                         !.consecutiveErrors = @ + 1,
                                         !.streak = @ + 1,
                                         !.applied = "failure"], f)
    /\ UNCHANGED <<layerVars, fnVars, satellites, wsServer>>

\* the timeout of the chain hooks expires: fetchData runs again
TimeoutFires ==
    /\ scenario = "poll" /\ poll.hook \in ChainHooks
    /\ poll.timer # <<>>
    /\ Cardinality(poll.inFlight) < MaxInFlight
    /\ poll' = [poll EXCEPT !.timer = <<>>,
                            !.inFlight = @ \cup {[effect |-> poll.effect,
                                                  region |-> poll.region]},
                            !.waited = IF poll.streak > 0
                                       THEN <<poll.timer[1].delay>> ELSE <<>>,
                            !.applied = "none"]
    /\ UNCHANGED <<layerVars, fnVars, satellites, wsServer>>

\* useCameras: a response changes retryCount (setRetryCount(0) or c => c + 1);
\* when that changes its value the poll effect runs again: it clears the
\* interval, calls fetchCameras() and sets the interval anew
CamerasAfterResponse(p, retryCount) ==
    IF retryCount = p.consecutiveErrors
    THEN p
    ELSE RunPollEffect([p EXCEPT !.consecutiveErrors = retryCount], TRUE, p.region)

CamerasFetchSucceeds(f) ==
    /\ scenario = "poll" /\ poll.hook = "useCameras"
    /\ f \in poll.inFlight
    /\ poll.consecutiveErrors > 0 => poll.serial < MaxEffects
    /\ poll' = CamerasAfterResponse([poll EXCEPT !.inFlight = @ \ {f},
                                                 !.flights = <<f>>,
                                                 !.streak = 0,
                                                 !.applied = "success"], 0)
    /\ UNCHANGED <<layerVars, fnVars, satellites, wsServer>>

CamerasFetchFails(f) ==
    /\ scenario = "poll" /\ poll.hook = "useCameras"
    /\ f \in poll.inFlight
    /\ poll.consecutiveErrors < MaxErrors /\ poll.serial < MaxEffects
    /\ poll' = CamerasAfterResponse([poll EXCEPT !.inFlight = @ \ {f},
                                                 !.streak = @ + 1,
                                                 !.applied = "failure"],
                                    poll.consecutiveErrors + 1)
    /\ UNCHANGED <<layerVars, fnVars, satellites, wsServer>>

\* the interval of useCameras ticks: fetchCameras runs, the interval stays
CamerasIntervalFires ==
    /\ scenario = "poll" /\ poll.hook = "useCameras"
    /\ poll.timer # <<>>
    /\ Cardinality(poll.inFlight) < MaxInFlight
    /\ [effect |-> poll.effect, region |-> poll.region] \notin poll.inFlight
    /\ poll' = [poll EXCEPT !.inFlight = @ \cup {[effect |-> poll.effect,
                                                  region |-> poll.region]},
                            !.waited = IF poll.streak > 0
                                       THEN <<poll.timer[1].delay>> ELSE <<>>,
                            !.applied = "none"]
    /\ UNCHANGED <<layerVars, fnVars, satellites, wsServer>>

(***************************************************************************)
(* useSatellites.  A TLE response writes satrecsRef and bumps              *)
(* tleGeneration; the effects that depend on tleGeneration run after the   *)
(* render this causes, in a later task, so a timer that is due can run in  *)
(* between.  The orbit cache is known by the ids it has an entry for.      *)
(***************************************************************************)
NoradIds == {25544, 48274, 53239}
MaxTleGenerations == 3

IdleSatellites ==
    [satrecsRef |-> {}, orbitCacheRef |-> {}, tleGeneration |-> 0, rendered |-> 0,
     orbitsReady |-> FALSE, timers |-> FALSE, positions |-> {}]

\* computeOrbits: a new cache with an entry for every satrec
computeOrbits(h) == [h EXCEPT !.orbitCacheRef = h.satrecsRef]

\* propagatePositions: orbitPath: orbitCacheRef.current.get(noradId) ?? []
propagatePositions(h) ==
    [h EXCEPT !.positions =
        {[noradId |-> n,
          orbitPath |-> IF n \in h.orbitCacheRef THEN "cached" ELSE "fallback"]
            : n \in h.satrecsRef}]

\* fetchTLEs gets its response: satrecsRef.current = ...; setTleGeneration(g => g + 1)
TleFetchResolves(ids) ==
    /\ scenario = "tle"
    /\ ids # {}
    /\ satellites.tleGeneration < MaxTleGenerations
    /\ satellites' = [satellites EXCEPT !.satrecsRef = ids, !.tleGeneration = @ + 1]
    /\ UNCHANGED <<layerVars, fnVars, poll, wsServer>>

\* the render after a TLE load and its effects: the orbit effect computes the
\* orbits, sets orbitsReady and its interval; the position effect propagates
\* once and sets its interval
TleEffectsRun ==
    /\ scenario = "tle"
    /\ satellites.rendered < satellites.tleGeneration
    /\ satellites' =
         propagatePositions(
            [computeOrbits(satellites) EXCEPT !.rendered = satellites.tleGeneration,
                                              !.orbitsReady = TRUE,
                                              !.timers = TRUE])
    /\ UNCHANGED <<layerVars, fnVars, poll, wsServer>>

\* the ORBIT_INTERVAL timer
OrbitTimerFires ==
    /\ scenario = "tle"
    /\ satellites.timers
    /\ satellites' = computeOrbits(satellites)
    /\ UNCHANGED <<layerVars, fnVars, poll, wsServer>>

\* the POSITION_INTERVAL timer
PositionTimerFires ==
    /\ scenario = "tle"
    /\ satellites.timers
    /\ satellites' = propagatePositions(satellites)
    /\ UNCHANGED <<layerVars, fnVars, poll, wsServer>>

(***************************************************************************)
(* The backend's WebSocket flight push.  An interval is known by its       *)
(* handle; flightPollingInterval holds 0 for null or a handle, which may   *)
(* be that of an interval already cleared.                                 *)
(***************************************************************************)
MaxClients == 2
MaxHandles == 3
MaxStarting == 2

IdleServer ==
    [clients |-> 0, flightPollingInterval |-> 0, armed |-> {}, starting |-> 0,
     handles |-> 0]

\* wss.on('connection')
WsConnect ==
    /\ scenario = "ws"
    /\ wsServer.clients < MaxClients
    /\ wsServer' = [wsServer EXCEPT !.clients = @ + 1]
    /\ UNCHANGED <<layerVars, fnVars, poll, satellites>>

\* a subscribe-flights message: startFlightPolling up to its `await poll()`:
\* if (flightPollingInterval) clearInterval(flightPollingInterval);
WsSubscribe ==
    /\ scenario = "ws"
    /\ wsServer.clients > 0
    /\ wsServer.starting < MaxStarting
    /\ wsServer' = [wsServer EXCEPT !.armed = @ \ {wsServer.flightPollingInterval},
                                    !.starting = @ + 1]
    /\ UNCHANGED <<layerVars, fnVars, poll, satellites>>

\* the first poll of a startFlightPolling call completes:
\* flightPollingInterval = setInterval(poll, 10_000)
WsPollCompletes ==
    /\ scenario = "ws"
    /\ wsServer.starting > 0
    /\ wsServer.handles < MaxHandles
    /\ wsServer' = [wsServer EXCEPT !.starting = @ - 1,
                                    !.handles = @ + 1,
                                    !.armed = @ \cup {wsServer.handles + 1},
                                    !.flightPollingInterval = wsServer.handles + 1]
    /\ UNCHANGED <<layerVars, fnVars, poll, satellites>>

\* ws.on('close'): if (wss.clients.size === 0 && flightPollingInterval)
\* { clearInterval(flightPollingInterval); flightPollingInterval = null; }
WsClose ==
    /\ scenario = "ws"
    /\ wsServer.clients > 0
    /\ wsServer' =
         IF wsServer.clients = 1 /\ wsServer.flightPollingInterval # 0
         THEN [wsServer EXCEPT !.clients = 0,
                               !.armed = @ \ {wsServer.flightPollingInterval},
                               !.flightPollingInterval = 0]
         ELSE [wsServer EXCEPT !.clients = @ - 1]
    /\ UNCHANGED <<layerVars, fnVars, poll, satellites>>

(***************************************************************************)
(* The pure functions: vessel categories and colours, and the merge of the *)
(* two flight feeds.                                                       *)
(***************************************************************************)
ShipCategories ==
    {"cargo", "tanker", "passenger", "fishing", "military", "tug", "pleasure",
     "highspeed", "other"}

getShipCategory_DefaultsToCargo(typeCode) ==
    IF typeCode.t = "null" THEN "other"
    ELSE IF Ge(typeCode, 70) /\ Le(typeCode, 79) THEN "cargo"
    ELSE IF Ge(typeCode, 80) /\ Le(typeCode, 89) THEN "tanker"
    ELSE IF Ge(typeCode, 60) /\ Le(typeCode, 69) THEN "passenger"
    ELSE "cargo"

getShipCategory(typeCode) ==
    IF typeCode.t = "null" THEN "other"
    ELSE IF Ge(typeCode, 70) /\ Le(typeCode, 79) THEN "cargo"
    ELSE IF Ge(typeCode, 80) /\ Le(typeCode, 89) THEN "tanker"
    ELSE IF Ge(typeCode, 60) /\ Le(typeCode, 69) THEN "passenger"
    ELSE IF StrictEq(typeCode, 30) THEN "fishing"
    ELSE IF StrictEq(typeCode, 35) THEN "military"
    ELSE IF (Ge(typeCode, 31) /\ Le(typeCode, 32)) \/ StrictEq(typeCode, 52) THEN "tug"
    ELSE IF Ge(typeCode, 36) /\ Le(typeCode, 37) THEN "pleasure"
    ELSE IF Ge(typeCode, 40) /\ Le(typeCode, 49) THEN "highspeed"
    ELSE "other"

CATEGORY_COLORS ==
    [c \in ShipCategories |->
        CASE c = "cargo" -> "#4A9EFF"
          [] c = "tanker" -> "#FF8C00"
          [] c = "passenger" -> "#00E676"
          [] c = "fishing" -> "#FFD740"
          [] c = "military" -> "#FF5252"
          [] c = "tug" -> "#CE93D8"
          [] c = "pleasure" -> "#80DEEA"
          [] c = "highspeed" -> "#FF80AB"
          [] OTHER -> "#90A4AE"]

\* CATEGORY_COLORS[category] ?? CATEGORY_COLORS.other
getShipColor(category) ==
    IF category \in DOMAIN CATEGORY_COLORS
    THEN CATEGORY_COLORS[category]
    ELSE CATEGORY_COLORS["other"]

\* the type codes, categories and altitudes the functions are called with
MaxTypeCode == 100
TypeCodes == {Null, NaN} \cup {Num(n) : n \in -1..MaxTypeCode}
CategoryNames == ShipCategories \cup {"submarine", "undefined"}
Altitudes ==
    {NaN} \cup {Num(a) : a \in {-1000, 0, 999, 1000, 2000, 2999, 3000, 9999, 10000,
                                19999, 20000, 22000, 24999, 25000, 34999, 35000,
                                35001, 45000}}

\* A record of one of the two flight feeds.  FR24 (global) knows the route,
\* adsb.fi (live) reports the position more often.
FeedFlight(icao24, longitude, originAirport) ==
    [icao24 |-> icao24, longitude |-> longitude, originAirport |-> originAirport]

GlobalFlights ==
    { FeedFlight(i, 0, o) : i \in Ids, o \in {"", "LHR"} }
    \cup { FeedFlight("a", 5000, "LHR") }
LiveFlights == { FeedFlight(i, 10000, "") : i \in Ids }

MaxFeedLen == 2
FeedLists(records) == UNION { [1..n -> records] : n \in 0..MaxFeedLen }

\* routeMap: the last global record of an icao24 that knows its origin
RouteOf(flightsGlobal, icao24) ==
    LET known == {i \in 1..Len(flightsGlobal) :
                    /\ flightsGlobal[i].icao24 = icao24
                    /\ flightsGlobal[i].originAirport # ""}
    IN IF known = {} THEN <<>>
       ELSE <<flightsGlobal[CHOOSE i \in known : \A j \in known : j <= i]>>

IsGlobalOnly(f, flightsLive) ==
    f.icao24 \notin {flightsLive[i].icao24 : i \in 1..Len(flightsLive)}

\* the flights useMemo of App
MergeFlights(flightsGlobal, flightsLive) ==
    IF Len(flightsLive) = 0 THEN flightsGlobal
    ELSE IF Len(flightsGlobal) = 0 THEN flightsLive
    ELSE LET globalOnly ==
                SelectSeq(flightsGlobal, LAMBDA f : IsGlobalOnly(f, flightsLive))
             enrichedLive ==
                [i \in 1..Len(flightsLive) |->
                    LET f == flightsLive[i]
                        route == RouteOf(flightsGlobal, f.icao24)
                    IN IF route # <<>> /\ f.originAirport = ""
                       THEN [f EXCEPT !.originAirport = route[1].originAirport]
                       ELSE f]
         IN globalOnly \o enrichedLive

Call(name, args, result) ==
    /\ scenario = "pure"
    /\ called' = [name |-> name, args |-> args]
    /\ returned' = result
    /\ UNCHANGED <<layerVars, poll, satellites, wsServer>>

CallGetShipCategory(typeCode) ==
    Call("getShipCategory", <<typeCode>>, getShipCategory(typeCode))

CallGetShipColor(category) ==
    Call("getShipColor", <<category>>, getShipColor(category))

CallGetAltitudeBand(altFeet) ==
    Call("getAltitudeBand", <<altFeet>>, getAltitudeBand(altFeet))

CallMergeFlights(flightsGlobal, flightsLive) ==
    Call("MergeFlights", <<flightsGlobal, flightsLive>>,
         MergeFlights(flightsGlobal, flightsLive))

(***************************************************************************)
(* The specifications.                                                     *)
(***************************************************************************)
InitRefs ==
    /\ trackedInfo = "null"
    /\ trackedEntity = NoEntity
    /\ isTrackingRef = FALSE
    /\ cctvTrackEntityRef = NoEntity
    /\ notified = "none"
    /\ now = ClockStep
    /\ mounted = TRUE
    /\ batch = <<>>
    /\ visible = TRUE
    /\ lastBulkUpdate = 0
    /\ stateRef = EmptyMap
    /\ positionMapRef = EmptyMap
    /\ entityMapRef = EmptyMap
    /\ primitiveMapRef = EmptyMap
    /\ viewerEntities = {QuakeEntity}
    /\ billboards = {}
    /\ labels = {}
    /\ billboardsShow = TRUE
    /\ labelsShow = TRUE
    /\ called = [name |-> "none", args |-> <<>>]
    /\ IF scenario = "poll"
       THEN poll \in {IdlePoll(hook) : hook \in Hooks}
       ELSE poll = IdlePoll("none")
    /\ satellites = IdleSatellites
    /\ wsServer = IdleServer
    /\ returned = "none"
    /\ lastOp = [name |-> "none", had |-> {}, moved |-> {}]

\* the aircraft / vessel pipeline
InitLayer ==
    /\ layer \in {"flight", "ship"}
    /\ filter = DEFAULT_ALTITUDE_FILTER
    /\ InitRefs

Init == scenario = "sync" /\ InitLayer

TickInit == scenario = "clock" /\ InitLayer

\* the orbiter pipeline
SatInit ==
    /\ scenario = "clock"
    /\ layer = "sat"
    /\ filter = DEFAULT_SATELLITE_FILTER
    /\ InitRefs

Next ==
    \/ \E b \in Batches, cam \in CameraSides : SetBatch(b, cam)
    \/ \E cam \in CameraSides : ToggleVisible(cam)
    \/ \E band \in ToggledBands : ToggleAltitudeFilter(band)
    \/ AdvanceClock
    \/ \E cam \in CameraSides : PreUpdate(cam)
    \/ \E k \in Ids : ClickEntity(k)
    \/ ClickOther
    \/ ClickEmpty
    \/ Escape
    \/ Unmount

Spec == Init /\ [][Next]_vars

TickSpec == TickInit /\ [][Next]_vars

\* the same pipeline when the creation of a backing entity can fail
FaultInit == scenario = "fault" /\ InitLayer

FaultNext ==
    \/ Next
    \/ \E b \in Batches, cam \in CameraSides, failAt \in 1..MaxBatchLen :
            SetBatchBreaking(b, cam, failAt)

FaultSpec == FaultInit /\ [][FaultNext]_vars

\* the same pipeline fed with a record whose latitude is out of range
CoordInit == scenario = "coords" /\ InitLayer

CoordSpec == CoordInit /\ [][Next]_vars

SatNext ==
    \/ \E b \in SatBatches, cam \in {"near", "far"} : SatSetBatch(b, cam)
    \/ \E cam \in {"near", "far"} : SatToggleVisible(cam)
    \/ \E category \in SatelliteCategories, cam \in {"near", "far"} :
            SatToggleCategory(category, cam)
    \/ \E k \in SatIds, cam \in {"near", "far"} : SatUpdatePosition(k, cam)
    \/ AdvanceClock
    \/ \E k \in SatIds : ClickSat(k)
    \/ ClickOther
    \/ ClickEmpty
    \/ Escape

SatSpec == SatInit /\ [][SatNext]_vars

\* the same pipeline on a ten-second clock, fed with aircraft and vessels that
\* make about 100 m/s
NumericInit == scenario = "numeric" /\ InitLayer

NumericSpec == NumericInit /\ [][Next]_vars

\* the same pipeline frame by frame
FrameInit == scenario = "frames" /\ InitLayer

FrameSpec == FrameInit /\ [][Next]_vars

\* the pipeline together with the application's own lock handlers
AppInit == scenario = "app" /\ InitLayer

AppNext ==
    \/ Next
    \/ PanelUnlock
    \/ ResetView
    \/ GeoFlyTo
    \/ CctvLockOn

AppSpec == AppInit /\ [][AppNext]_vars

\* a polling hook alone
PollInit ==
    /\ scenario = "poll" /\ layer = "flight" /\ filter = DEFAULT_ALTITUDE_FILTER
    /\ InitRefs

PollNext ==
    \/ \E shouldPoll \in BOOLEAN, region \in {1, 2} : SetPolling(shouldPoll, region)
    \/ \E f \in poll.inFlight : FetchSucceeds(f)
    \/ \E f \in poll.inFlight : FetchFails(f)
    \/ TimeoutFires
    \/ \E f \in poll.inFlight : CamerasFetchSucceeds(f)
    \/ \E f \in poll.inFlight : CamerasFetchFails(f)
    \/ CamerasIntervalFires

PollSpec == PollInit /\ [][PollNext]_vars

\* useSatellites alone
TleInit == scenario = "tle" /\ layer = "sat" /\ filter = DEFAULT_SATELLITE_FILTER /\ InitRefs

TleNext ==
    \/ \E ids \in SUBSET NoradIds : TleFetchResolves(ids)
    \/ TleEffectsRun
    \/ OrbitTimerFires
    \/ PositionTimerFires

TleSpec == TleInit /\ [][TleNext]_vars

\* the backend's WebSocket server alone
WsInit == scenario = "ws" /\ layer = "flight" /\ filter = DEFAULT_ALTITUDE_FILTER /\ InitRefs

WsNext ==
    \/ WsConnect
    \/ WsSubscribe
    \/ WsPollCompletes
    \/ WsClose

WsSpec == WsInit /\ [][WsNext]_vars

\* the pure functions alone, called with every input of the bounded sets
PureInit == scenario = "pure" /\ layer = "flight" /\ filter = DEFAULT_ALTITUDE_FILTER /\ InitRefs

PureNext ==
    \/ \E typeCode \in TypeCodes : CallGetShipCategory(typeCode)
    \/ \E category \in CategoryNames : CallGetShipColor(category)
    \/ \E altFeet \in Altitudes : CallGetAltitudeBand(altFeet)
    \/ \E flightsGlobal \in FeedLists(GlobalFlights), flightsLive \in FeedLists(LiveFlights) :
            CallMergeFlights(flightsGlobal, flightsLive)

PureSpec == PureInit /\ [][PureNext]_vars

\* the click handler alone, over the entities of every layer
ClassInit == scenario = "class" /\ InitLayer

ClassNext ==
    \/ \E entity \in PickedEntities : ClickPicked(entity)
    \/ ClickEmpty
    \/ Escape

ClassSpec == ClassInit /\ [][ClassNext]_vars

(***************************************************************************)
(* Properties.                                                             *)
(***************************************************************************)
\* the ids of a batch, and those that pass the classification filter
BatchIds(b) == {b[i].id : i \in 1..Len(b)}

PassingIds(b, flt) == {b[i].id : i \in {j \in 1..Len(b) : PassesFilter(b[j], flt)}}

C2_TrackedBackingEntityKept ==
    (mounted /\ trackedEntity.kind = layer) =>
        /\ trackedEntity \in viewerEntities
        /\ trackedEntity.key \in DOMAIN entityMapRef
        /\ entityMapRef[trackedEntity.key] = trackedEntity
        /\ trackedEntity.key \in DOMAIN positionMapRef
        /\ trackedEntity.key \in DOMAIN stateRef

\* a commit of a non-empty batch, the layer visible, that left the followed id
\* without a RenderHandle: the batch omits it or the filter rejects it
C2_Witness ==
    /\ mounted /\ visible /\ lastOp.name = "sync"
    /\ trackedEntity.kind = layer
    /\ PassingIds(batch, filter) # {}
    /\ trackedEntity.key \notin PassingIds(batch, filter)
    /\ trackedEntity \in viewerEntities

\* C3: across two consecutive commits (runs of the sync effect, which a change
\* of the batch, of the visibility or of the filter triggers), an id that is in
\* the batch and passes the filter at both keeps the very same RenderHandle:
\* the handle it held is still held and still in the collection.
C3_SameHandleAcrossCommits ==
    [][\A k \in DOMAIN primitiveMapRef :
          ( /\ mounted'
            /\ propVars' # propVars
            /\ k \in PassingIds(batch, filter)
            /\ k \in PassingIds(batch', filter') )
          => /\ k \in DOMAIN primitiveMapRef'
             /\ primitiveMapRef'[k].obj = primitiveMapRef[k].obj
             /\ primitiveMapRef'[k].obj \in billboards' \cap labels']_vars

\* the time since the last authoritative update of id k, in seconds
Age(k) == now - stateRef[k].updatedAt

\* the dead-reckoned position of id k at its present age
DeadReckoned(k) ==
    LET p == Extrapolate(stateRef[k], Age(k)) IN
    Cartesian3FromDegrees(p.lon, p.lat, stateRef[k].alt)

\* C4: on every tick that runs while an entity of the layer is followed, be it
\* in the batch or omitted from it, the followed TrackableProxy exists and its
\* position accessor (positionMapRef) returns either the last authoritative
\* position or, within the horizon, the position dead-reckoned from it.
C4_FollowedProxyPositionOnTick ==
    [][((\E cam \in CameraSides : PreUpdate(cam)) /\ trackedEntity.kind = layer)
          => LET k == trackedEntity.key IN
             /\ trackedEntity \in viewerEntities'
             /\ k \in DOMAIN entityMapRef' /\ entityMapRef'[k] = trackedEntity
             /\ k \in DOMAIN stateRef
             /\ k \in DOMAIN positionMapRef'
             /\ \/ positionMapRef'[k] = LastKnown(stateRef[k])
                \/ /\ Age(k) > 0 /\ Age(k) < Horizon
                   /\ positionMapRef'[k] = DeadReckoned(k)]_vars

\* a tick after a commit whose non-empty batch omits the followed id: the
\* proxy has no RenderHandle and its position is the dead-reckoned one
C4_Witness ==
    /\ mounted /\ visible /\ lastOp.name = "tick"
    /\ trackedEntity.kind = layer
    /\ batch # <<>>
    /\ trackedEntity.key \notin BatchIds(batch)
    /\ trackedEntity.key \notin DOMAIN primitiveMapRef
    /\ trackedEntity.key \in DOMAIN positionMapRef
    /\ positionMapRef[trackedEntity.key] # LastKnown(stateRef[trackedEntity.key])
    /\ positionMapRef[trackedEntity.key] = DeadReckoned(trackedEntity.key)

\* C5: after every tick, tracked or bulk, that runs when an id holding a
\* RenderHandle is at least a horizon old, the rendered position of that id is
\* its last authoritative position exactly.
C5_FrozenFromTheHorizonOn ==
    [][(\E cam \in CameraSides : PreUpdate(cam))
          => \A k \in (DOMAIN primitiveMapRef) \cap (DOMAIN stateRef) :
                (Age(k) >= Horizon /\ (k \in TrackedKey \/ BulkDue))
                => primitiveMapRef'[k].position = LastKnown(stateRef[k])]_vars

\* the position the batch gives for id k: that of its last record
BatchPosition(b, k) ==
    LET i == CHOOSE i \in 1..Len(b) :
                 b[i].id = k /\ \A j \in (i + 1)..Len(b) : b[j].id # k
    IN Cartesian3FromDegrees(b[i].longitude, b[i].latitude, b[i].altitude)

Locked == isTrackingRef /\ trackedInfo # "null"

Unlocked == ~isTrackingRef /\ trackedInfo = "null" /\ trackedEntity = NoEntity

C8_FollowedSatelliteStaysInScene ==
    (layer = "sat" /\ Locked /\ trackedInfo \in SatIds) =>
        /\ trackedEntity.kind = "sat" /\ trackedEntity.key = trackedInfo
        /\ trackedEntity \in viewerEntities

\* C9: a TrackableProxy kept only because it was followed (the layer visible,
\* the batch not empty, and its id not active) is released by the next refresh
\* once the follow is released and its id stays out of the batch: the refresh
\* removes it from the viewer's entities, entityMap, positionMap and the state
\* map, also when the refreshed batch is empty or the layer is hidden.
C9_RetainedProxyReleasedByNextRefresh ==
    [][\A k \in DOMAIN entityMapRef :
          ( /\ mounted /\ mounted'
            /\ visible /\ PassingIds(batch, filter) # {}
            /\ k \notin PassingIds(batch, filter)
            /\ trackedEntity # entityMapRef[k]
            /\ propVars' # propVars
            /\ k \notin BatchIds(batch') )
          => /\ k \notin DOMAIN entityMapRef'
             /\ entityMapRef[k] \notin viewerEntities'
             /\ k \notin DOMAIN positionMapRef'
             /\ k \notin DOMAIN stateRef']_vars

\* C10: toggling a layer invisible destroys no stable identity: every
\* RenderHandle and every TrackableProxy that exists when the layer is hidden
\* still exists, the same object, once it is hidden (so that showing the layer
\* again can find the same objects).
C10_HidingKeepsStableIdentities ==
    [][(mounted' /\ visible /\ ~visible')
          => /\ \A k \in DOMAIN primitiveMapRef :
                  /\ k \in DOMAIN primitiveMapRef'
                  /\ primitiveMapRef'[k].obj = primitiveMapRef[k].obj
                  /\ primitiveMapRef[k].obj \in billboards' \cap labels'
             /\ \A k \in DOMAIN entityMapRef :
                  /\ k \in DOMAIN entityMapRef'
                  /\ entityMapRef'[k] = entityMapRef[k]
                  /\ entityMapRef[k] \in viewerEntities']_vars

\* C11: once a layer instance is unmounted, from any prior state (a lock held
\* on one of its entities included), its collections hold no primitive, the
\* RenderHandle map, entityMap, positionMap and the state map are empty, no
\* backing entity of the layer is left in the viewer (nor followed by it), and
\* no handler of the layer runs any more: the refs, the bulk-tick timestamp and
\* the record of the last effect never change again.
C11_UnmountReleasesEverything ==
    /\ [](~mounted =>
            /\ billboards = {} /\ labels = {}
            /\ primitiveMapRef = EmptyMap /\ entityMapRef = EmptyMap
            /\ positionMapRef = EmptyMap /\ stateRef = EmptyMap
            /\ \A e \in viewerEntities \cup {trackedEntity} : e.kind # layer)
    /\ [][~mounted =>
            /\ ~mounted'
            /\ UNCHANGED <<refVars, propVars, lastBulkUpdate, lastOp>>]_vars

\* the layer was unmounted while the lock was held on one of its entities
C11_Witness ==
    /\ ~mounted /\ lastOp.name = "unmount"
    /\ isTrackingRef /\ trackedInfo \in Ids
    /\ trackedEntity = NoEntity

\* C12: a commit of the batch that was committed last (the sync effect runs
\* again with the same records, visibility and filter, no tick in between)
\* changes nothing observable: the same ids
\* hold a RenderHandle, the two collections hold the same primitives, every
\* handle keeps its position, and every proxy position is kept (a proxy that
\* is gone was retained for a follow since released: its id is not active).
C12_SecondCommitChangesNothing ==
    [][(mounted /\ lastOp.name = "sync" /\ lastOp'.name = "sync" /\ UNCHANGED propVars)
          => /\ DOMAIN primitiveMapRef' = DOMAIN primitiveMapRef
             /\ billboards' = billboards /\ labels' = labels
             /\ \A k \in DOMAIN primitiveMapRef :
                   primitiveMapRef'[k].position = primitiveMapRef[k].position
             /\ \A k \in DOMAIN positionMapRef :
                   \/ /\ k \in DOMAIN positionMapRef'
                      /\ positionMapRef'[k] = positionMapRef[k]
                   \/ /\ k \notin DOMAIN positionMapRef'
                      /\ k \notin PassingIds(batch, filter)
                      /\ trackedEntity # entityMapRef[k]]_vars

\* the same batch of two ids committed twice in a row, at different instants,
\* the layer visible: both ids hold a handle at their batch position
C12_Witness ==
    /\ mounted /\ visible /\ lastOp.name = "sync"
    /\ lastOp.had = {"a", "b"} /\ lastOp.moved = {}
    /\ DOMAIN primitiveMapRef = {"a", "b"}
    /\ BatchIds(batch) = {"a", "b"}
    /\ \A k \in Ids : stateRef[k].updatedAt = now /\ now > ClockStep

\* the distance (micro-degrees) an entity travels at its stored speed during
\* one horizon
MaxDrift(st) ==
    IF st.speed = <<>> THEN 0 ELSE DegreesTravelled(st.speed[1], Horizon)

Abs(x) == IF x < 0 THEN -x ELSE x

\* position p lies within one horizon's travel of the last authoritative
\* position held in st
WithinOneHorizon(p, st) ==
    /\ p.alt = st.alt
    /\ Abs(p.lon - st.lon) <= MaxDrift(st)
    /\ Abs(p.lat - st.lat) <= MaxDrift(st)

\* C13: in every reachable state, every id with a RenderHandle or a
\* TrackableProxy has an extrapolation state, and its rendered position and
\* its proxy position lie within the distance travelled at the stored speed
\* during one horizon (120 s aircraft, 300 s vessels) of its last authoritative
\* position; and a tick that runs when the id is older than the horizon moves
\* its handle nowhere but, at most, back to the last authoritative position.
C13_DriftBoundedByOneHorizon ==
    /\ [](mounted =>
            /\ \A k \in DOMAIN primitiveMapRef :
                  /\ k \in DOMAIN stateRef
                  /\ WithinOneHorizon(primitiveMapRef[k].position, stateRef[k])
            /\ \A k \in DOMAIN entityMapRef :
                  /\ k \in (DOMAIN stateRef) \cap (DOMAIN positionMapRef)
                  /\ WithinOneHorizon(positionMapRef[k], stateRef[k]))
    /\ [][(\E cam \in CameraSides : PreUpdate(cam))
            => \A k \in DOMAIN primitiveMapRef :
                  Age(k) > Horizon =>
                     primitiveMapRef'[k].position \in
                        {primitiveMapRef[k].position, LastKnown(stateRef[k])}]_vars

\* a tick ran on an id older than the horizon and left its handle where an
\* earlier tick, within the horizon, had dead-reckoned it
C13_Witness ==
    /\ mounted /\ lastOp.name = "tick"
    /\ \E k \in DOMAIN primitiveMapRef :
          /\ Age(k) > Horizon
          /\ lastBulkUpdate = now
          /\ primitiveMapRef[k].position # LastKnown(stateRef[k])
          /\ WithinOneHorizon(primitiveMapRef[k].position, stateRef[k])

\* C14: in every reachable state of a layer, the billboard collection and the
\* label collection each hold exactly the primitive of every key of the
\* RenderHandle map, one per key, and nothing else; also when a batch lists an
\* id twice and after the hidden-layer / empty-batch path.
C14_OnePrimitivePairPerHandle ==
    /\ billboards = {primitiveMapRef[k].obj : k \in DOMAIN primitiveMapRef}
    /\ labels = {primitiveMapRef[k].obj : k \in DOMAIN primitiveMapRef}
    /\ Cardinality(billboards) = Cardinality(DOMAIN primitiveMapRef)
    /\ Cardinality(labels) = Cardinality(DOMAIN primitiveMapRef)

\* a commit of a batch that lists one id twice, with two different records:
\* the id holds a single billboard and a single label
C14_Witness ==
    /\ mounted /\ visible /\ lastOp.name = "sync"
    /\ Len(batch) = 2 /\ batch[1].id = batch[2].id /\ batch[1] # batch[2]
    /\ DOMAIN primitiveMapRef = {batch[1].id}
    /\ Cardinality(billboards) = 1 /\ Cardinality(labels) = 1

\* C15: a click that picks the entity the lock is already held on is a no-op:
\* in every state where the lock is held on a pickable entity of the layer, the
\* click handler run on that entity leaves the lock state (tracked entity,
\* handler flag, application state) as it is and delivers no notification to
\* the listener.
C15_ReselectIsNoOp ==
    \A k \in Ids :
        (Pickable(k) /\ Locked /\ trackedEntity = primitiveMapRef[k].id)
        => ~ENABLED (ClickEntity(k) /\ (notified' # "none" \/ lockVars' # lockVars))

\* C16: the view offset of a locked entity depends on its class alone: near
\* for an aircraft backing entity, far for an orbiter entity, medium for any
\* other (vessel, earthquake), with near < medium < far, whatever keywords its
\* name and description contain.
C16_OffsetByEntityClass ==
    /\ AIRCRAFT_VIEW_OFFSET < OTHER_VIEW_OFFSET
    /\ OTHER_VIEW_OFFSET < SATELLITE_VIEW_OFFSET
    /\ (isTrackingRef /\ trackedEntity # NoEntity) =>
          trackedEntity.viewFrom =
             IF trackedEntity.kind = "flight" THEN AIRCRAFT_VIEW_OFFSET
             ELSE IF trackedEntity.kind = "sat" THEN SATELLITE_VIEW_OFFSET
             ELSE OTHER_VIEW_OFFSET

\* latitude within [-90, 90] and longitude within [-180, 180] degrees
ValidCoordinates(lat, lon) ==
    /\ lat >= -90000000 /\ lat <= 90000000
    /\ lon >= -180000000 /\ lon <= 180000000

\* C17: a batch record whose latitude or longitude is out of range is dropped
\* by the commit: no ExtrapolationState, no RenderHandle and no TrackableProxy
\* ever carries such coordinates, and an id that the batch lists with such
\* records only holds no RenderHandle.
C17_InvalidCoordinatesDropped ==
    /\ \A k \in DOMAIN stateRef : ValidCoordinates(stateRef[k].lat, stateRef[k].lon)
    /\ \A k \in DOMAIN primitiveMapRef :
          ValidCoordinates(primitiveMapRef[k].position.lat, primitiveMapRef[k].position.lon)
    /\ \A k \in DOMAIN positionMapRef :
          ValidCoordinates(positionMapRef[k].lat, positionMapRef[k].lon)
    /\ (mounted /\ visible) =>
          \A k \in DOMAIN primitiveMapRef :
             \E i \in 1..Len(batch) :
                batch[i].id = k /\ ValidCoordinates(batch[i].latitude, batch[i].longitude)

\* C18: when the creation of the backing entity of one record of a batch
\* fails, the failure is contained to that record: every later record of the
\* batch that passes the filter is processed (it holds a RenderHandle and a
\* TrackableProxy and its state is the one the batch gives, stamped now).
C18_FailureContainedToOneEntity ==
    [][\A b \in Batches, cam \in CameraSides, failAt \in 1..MaxBatchLen :
          SetBatchBreaking(b, cam, failAt)
          => \A j \in (failAt + 1)..Len(b) :
                PassesFilter(b[j], filter)
                => /\ b[j].id \in DOMAIN primitiveMapRef'
                   /\ b[j].id \in DOMAIN entityMapRef'
                   /\ b[j].id \in DOMAIN stateRef'
                   /\ stateRef'[b[j].id].updatedAt = now]_vars

\* the record the batch gives for id k: its last one
BatchRecord(b, k) ==
    b[CHOOSE i \in 1..Len(b) : b[i].id = k /\ \A j \in (i + 1)..Len(b) : b[j].id # k]

C20_ShownIffVisibleFromCamera ==
    [][\A cam \in {"near", "far"} :
          PreUpdate(cam)
          => /\ DOMAIN primitiveMapRef' = DOMAIN primitiveMapRef
             /\ billboards' = billboards /\ labels' = labels
             /\ \A k \in DOMAIN primitiveMapRef' :
                   /\ primitiveMapRef'[k].billboardShow =
                         isPointVisible(cam, primitiveMapRef'[k].position)
                   /\ primitiveMapRef'[k].labelShow =
                         isPointVisible(cam, primitiveMapRef'[k].position)]_vars

(***************************************************************************)
(* C21-C23: the classification functions and the merge of the feeds.       *)
(***************************************************************************)
\* the AIS type codes that have a category of their own
RecognisedTypeCodes == {30, 31, 32, 35, 36, 37, 52} \cup (40..49) \cup (60..89)

DocumentedBand(a) ==
    IF a > 35000 THEN "cruise"
    ELSE IF a >= 25000 THEN "high"
    ELSE IF a >= 10000 THEN "mid"
    ELSE IF a >= 1000 THEN "low"
    ELSE "ground"

\* C22: for every altitude in feet, getAltitudeBand returns the band of the
\* documentation: cruise above 35,000, high from 25,000 to 35,000, mid from
\* 10,000 to below 25,000, low from 1,000 to below 10,000, ground below 1,000.
C22_BandsAsDocumented ==
    (called.name = "getAltitudeBand" /\ called.args[1].t = "num")
        => returned = DocumentedBand(called.args[1].v)

Icaos(list) == {list[i].icao24 : i \in 1..Len(list)}

\* C23: for every pair of global and live lists, the merged list has no two
\* entries with the same icao24, has an entry for every icao24 of either list,
\* and the entry of an icao24 of the live list carries a live position.
C23_MergeDeduplicatesByIcao24 ==
    called.name = "MergeFlights" =>
        LET flightsLive == called.args[2]
            merged == returned
        IN /\ \A i, j \in 1..Len(merged) :
                    i # j => merged[i].icao24 # merged[j].icao24
           /\ Icaos(merged) = Icaos(called.args[1]) \cup Icaos(flightsLive)
           /\ \A i \in 1..Len(merged) :
                    merged[i].icao24 \in Icaos(flightsLive) =>
                        \E j \in 1..Len(flightsLive) :
                            /\ flightsLive[j].icao24 = merged[i].icao24
                            /\ flightsLive[j].longitude = merged[i].longitude

\* C24: after every commit, a hidden or an empty one included, every id that
\* is not the followed one has a TrackableProxy (an entry of entityMapRef) if
\* and only if it has a RenderHandle (an entry of primitiveMapRef).
C24_ProxyIffHandle ==
    [][(mounted /\ mounted' /\ propVars' # propVars)
          => \A k \in Ids \ TrackedKey :
                k \in DOMAIN entityMapRef' <=> k \in DOMAIN primitiveMapRef']_vars

ExpectedLonGain == (100 * 10 * 1000000) \div 111320

\* the ids a tick writes: the followed one, and on a bulk tick those holding a
\* RenderHandle
WrittenByTick == TrackedKey \cup (IF BulkDue THEN DOMAIN primitiveMapRef ELSE {})

\* C26: for an entity heading 90 at lat 0 that makes 100 m/s (194 kt and 195 kt,
\* the whole knots on either side of it), a tick 10 s after the last update
\* puts it at the stored longitude plus 100 * 10 / 111320 degrees, within 1 %,
\* and at the stored latitude.
C26_TenSecondsAtHundredMetresPerSecond ==
    [][(\E cam \in CameraSides : PreUpdate(cam))
          => \A k \in WrittenByTick \cap (DOMAIN stateRef) :
                ( /\ Age(k) = 10
                  /\ stateRef[k].heading = <<90>>
                  /\ stateRef[k].lat = 0
                  /\ stateRef[k].speed[1] \in AboutHundredMetresPerSecond )
                => LET p == positionMapRef'[k]
                       gain == p.lon - stateRef[k].lon
                   IN /\ Abs(gain - ExpectedLonGain) * 100 <= ExpectedLonGain
                      /\ p.lat = stateRef[k].lat
                      /\ k \in DOMAIN primitiveMapRef
                            => primitiveMapRef'[k].position = p]_vars

\* a tick ran 10 s after the commit of such an entity and moved its handle east
C26_Witness ==
    /\ scenario = "numeric" /\ mounted /\ lastOp.name = "tick"
    /\ \E k \in DOMAIN primitiveMapRef :
          /\ Age(k) = 10
          /\ stateRef[k].speed[1] \in AboutHundredMetresPerSecond
          /\ primitiveMapRef[k].position.lon > stateRef[k].lon
          /\ primitiveMapRef[k].position.lat = 0

\* C27: the bulk tick and the tracked tick are the same function of (state,
\* now): on every bulk tick, every id it is in charge of (holding a
\* RenderHandle, not followed) is rendered where the tracked tick would put it
\* at that age, be the age below, at or beyond the horizon.
C27_BulkAndTrackedAgree ==
    [][((\E cam \in CameraSides : PreUpdate(cam)) /\ BulkDue)
          => \A k \in ((DOMAIN primitiveMapRef) \cap (DOMAIN stateRef)) \ TrackedKey :
                primitiveMapRef'[k].position = TrackedPosition(stateRef[k], now)]_vars

\* C28: after every commit, for every id of its batch, followed or not,
\* passing the filter or not, the extrapolation state of the id holds the
\* position, heading and speed of the batch's record with the time of the
\* commit.
C28_StateHoldsEveryBatchRecord ==
    [][(mounted /\ mounted' /\ propVars' # propVars)
          => \A k \in BatchIds(batch') :
                /\ k \in DOMAIN stateRef'
                /\ stateRef'[k] = NewState(BatchRecord(batch', k), now)]_vars

\* C29: a tick only writes positions: it leaves every extrapolation state as
\* it is, leaves the key sets of the RenderHandle map, the entity map and the
\* state map as they are, and creates or destroys no RenderHandle (the same
\* primitives stay in the collections) and no TrackableProxy.
C29_TickOnlyWritesPositions ==
    [][(\E cam \in CameraSides : PreUpdate(cam))
          => /\ stateRef' = stateRef
             /\ DOMAIN primitiveMapRef' = DOMAIN primitiveMapRef
             /\ \A k \in DOMAIN primitiveMapRef :
                    primitiveMapRef'[k].obj = primitiveMapRef[k].obj
             /\ billboards' = billboards /\ labels' = labels
             /\ entityMapRef' = entityMapRef
             /\ viewerEntities' = viewerEntities]_vars

\* a tick skipped a handle for its age and left it, off its last-known
\* position, where an earlier tick had moved it
C29_Witness ==
    /\ mounted /\ lastOp.name = "tick"
    /\ \E k \in DOMAIN primitiveMapRef :
          /\ Age(k) > Horizon
          /\ primitiveMapRef[k].position # LastKnown(stateRef[k])

\* C30: the two cadences partition the entities.  In every frame the followed
\* entity of the layer is written by the tracked tick (the position the
\* tracked tick computes, also where the bulk tick would compute another); a
\* frame whose bulk tick is not due leaves every other RenderHandle where it
\* was; and two bulk ticks are never less than the bulk interval apart.
C30_CadencesPartitionEntities ==
    [][(\E cam \in CameraSides : PreUpdate(cam))
          => /\ \A k \in TrackedKey \cap (DOMAIN stateRef) :
                    /\ positionMapRef'[k] = TrackedPosition(stateRef[k], now)
                    /\ k \in DOMAIN primitiveMapRef =>
                            primitiveMapRef'[k].position = positionMapRef'[k]
             /\ \A k \in (DOMAIN primitiveMapRef) \ TrackedKey :
                    \/ primitiveMapRef'[k].position = primitiveMapRef[k].position
                    \/ /\ BulkDue
                       /\ primitiveMapRef'[k].position = BulkPosition(stateRef[k], now)
             /\ lastBulkUpdate' # lastBulkUpdate =>
                    (lastBulkUpdate' - lastBulkUpdate) * 1000 >= BULK_MS]_vars

\* a frame one second after a bulk tick of the vessel layer: the followed
\* vessel moved on, the other one stayed where the bulk tick had put it
C30_Witness ==
    /\ scenario = "frames" /\ mounted /\ lastOp.name = "tick"
    /\ (now - lastBulkUpdate) * 1000 < BULK_MS
    /\ \E k1, k2 \in DOMAIN primitiveMapRef :
          /\ k1 \in TrackedKey /\ k2 \notin TrackedKey
          /\ positionMapRef[k1] = DeadReckoned(k1)
          /\ positionMapRef[k1] # LastKnown(stateRef[k1])
          /\ Age(k2) = Age(k1)
          /\ primitiveMapRef[k2].position # DeadReckoned(k2)

\* C31: while an entity is locked, pressing the unlock button of the
\* tracked-entity panel leads to UNLOCKED: the viewer's tracked entity is
\* cleared and the application's trackedEntity state is null (the panel is
\* gone).
C31_PanelButtonUnlocks ==
    [][PanelUnlock => (trackedEntity' = NoEntity /\ trackedInfo' = "null")]_vars

\* C38: after every entity click, empty-space click, Escape, reset view,
\* geolocation fly-to and CCTV lock-on, in any order, the three holders of the
\* lock agree: the viewer's tracked entity is defined iff isTrackingRef is true
\* iff the application's trackedEntity state is not null.
C38_LockHoldersAgree ==
    [][((\E k \in Ids : ClickEntity(k)) \/ ClickOther \/ ClickEmpty \/ Escape
            \/ ResetView \/ GeoFlyTo \/ CctvLockOn)
          => /\ (trackedEntity' # NoEntity) <=> isTrackingRef'
             /\ isTrackingRef' <=> (trackedInfo' # "null")]_vars

(***************************************************************************)
(* C32-C35, C39: the polling hooks, useSatellites and the WebSocket push.  *)
(***************************************************************************)
\* min(base * 2^(k-1), max), spelled out: base, twice the base, then the
\* ceiling (four times the base, in every hook)
ExpectedBackoff(hook, k) ==
    IF k = 1 THEN BackoffBase(hook)
    ELSE IF k = 2 THEN 2 * BackoffBase(hook)
    ELSE BackoffMax(hook)

\* C32: in useFlights, useShips and useFlightsLive, the timeout a response
\* sets (the response of a fetch of the current effect; a cancelled effect
\* sets none) after the k-th failed response in a row is min(base * 2^(k-1),
\* max); after a successful response the error count is 0 and the timeout set
\* is the poll interval; and no timeout exceeds max.
C32_BackoffAfterFailures ==
    /\ [][\A f \in poll.inFlight :
            /\ FetchFails(f) =>
                  /\ poll'.consecutiveErrors = poll'.streak
                  /\ f.effect = poll.effect =>
                        /\ poll'.timer # <<>>
                        /\ poll'.timer[1].delay =
                              ExpectedBackoff(poll.hook, poll'.streak)
            /\ FetchSucceeds(f) =>
                  /\ poll'.consecutiveErrors = 0
                  /\ f.effect = poll.effect =>
                        /\ poll'.timer # <<>>
                        /\ poll'.timer[1].delay = PollInterval(poll.hook)]_vars
    /\ [](poll.hook \in ChainHooks /\ poll.timer # <<>>
            => poll.timer[1].delay <= BackoffMax(poll.hook))

\* the fourth failure in a row was answered with the ceiling
C32_Witness ==
    /\ poll.hook \in ChainHooks
    /\ poll.applied = "failure" /\ poll.streak = 4
    /\ poll.timer # <<>> /\ poll.timer[1].delay = BackoffMax(poll.hook)

\* C33: in useCameras, after the k-th failed fetch in a row no fetch is
\* issued before min(30 s * 2^(k-1), 120 s) have passed since that failure,
\* and after a success the next fetch is issued after the 5-minute interval.
C33_CamerasBackOff ==
    (poll.hook = "useCameras" /\ poll.streak > 0 /\ poll.waited # <<>>)
        => poll.waited[1] >= ExpectedBackoff(poll.hook, poll.streak)

\* C34: under every interleaving of a TLE refresh, the orbit timer and the
\* position timer, every emitted position carries the path the orbit cache
\* holds for its noradId, never the empty-array fallback.
C34_NoFallbackOrbitPath ==
    \A p \in satellites.positions : p.orbitPath = "cached"

\* C35: a response is applied only to the effect that issued the fetch: the
\* response of a fetch of a cancelled effect changes nothing of the hook's
\* state (the list stays empty while polling is off, the data of the current
\* region is not overwritten).
C35_CancelledResponseIgnored ==
    [][\A f \in poll.inFlight :
            ((FetchSucceeds(f) \/ FetchFails(f)) /\ f.effect # poll.effect)
                => /\ poll'.flights = poll.flights
                   /\ poll'.consecutiveErrors = poll.consecutiveErrors]_vars

\* C39: under every interleaving of subscribe messages, poll completions and
\* disconnects, at most one flight-polling interval is armed, and none once
\* no client is connected.
C39_AtMostOnePollingInterval ==
    /\ Cardinality(wsServer.armed) <= 1
    /\ wsServer.clients = 0 => wsServer.armed = {}

\* C36: the age used for dead reckoning restarts only when new data arrives: a
\* re-run of the sync effect caused by a change of altitudeFilter or visible
\* alone, the batch being the same, leaves the updatedAt of every
\* extrapolation state as it was.
C36_RerunKeepsUpdatedAt ==
    [][(mounted /\ mounted' /\ propVars' # propVars /\ batch' = batch)
          => \A k \in (DOMAIN stateRef) \cap (DOMAIN stateRef') :
                stateRef'[k].updatedAt = stateRef[k].updatedAt]_vars

\* C37: in every reachable state of the aircraft and vessel layers, the entity
\* map, the position map and the state map have the same keys, and every key
\* of the RenderHandle map is one of them.
C37_MapsShareTheirKeys ==
    /\ DOMAIN entityMapRef = DOMAIN positionMapRef
    /\ DOMAIN positionMapRef = DOMAIN stateRef
    /\ DOMAIN primitiveMapRef \subseteq DOMAIN entityMapRef

====
